---- MODULE Spec2Model ----
(***************************************************************************)
(* Chan-theory analysis pipeline of akshare/api/analysis/chanlun_core.py:  *)
(* ChanlunAnalyzer._analyze runs the stages in a fixed order over the raw  *)
(* bars handed to the constructor.  Each stage is one action; the stage    *)
(* functions are operators translated from the methods of the class.       *)
(* MultiLevelAnalyzer._analyze runs one ChanlunAnalyzer per level, feeding *)
(* the segments of a level to the next level as bars, and then looks for   *)
(* the trade points of level 1 that a higher level confirms.               *)
(* Lists are Python lists: index k of the source is element k+1 here, and  *)
(* every `index' field keeps the 0-based value the source stores.          *)
(* Prices are integers; ratios and strengths are exact fractions [n, d].   *)
(***************************************************************************)
EXTENDS Integers, Sequences, FiniteSets, TLC

VARIABLES pc, bar_args, requested_levels, bars_raw, bars_merged, macd_dif, macd_dea, macd_hist,
          fractals, strokes, segments, pivots, trade_points,
          self_bars, levels, level, analyzers, nested_trade_points

\* the analyzer under construction (one ChanlunAnalyzer)
analyzer_vars == <<bars_raw, bars_merged, macd_dif, macd_dea, macd_hist,
                   fractals, strokes, segments, pivots, trade_points>>

\* the MultiLevelAnalyzer that owns it
multi_vars == <<self_bars, levels, level, analyzers, nested_trade_points>>

\* bar_args: the values the caller hands to Bar(...), one record per bar;
\* pc is "rejected" when Bar.__post_init__ raised on one of them.
\* requested_levels: the levels the caller asks MultiLevelAnalyzer for.
caller_vars == <<bar_args, requested_levels>>
vars == <<pc, caller_vars, analyzer_vars, multi_vars>>

\* ------------------------------------------------------------------ bounds
\* bars of any shape: at most MaxBars bars with prices in 1..MaxPrice
MaxBars == 3
MaxPrice == 3
\* bars with high = low: at most MaxFlat bars with prices in 1..MaxFlatPrice
MaxFlat == 7
MaxFlatPrice == 3
\* zigzag series: at most NumTurns turning points, swings of 1..MaxStep
NumTurns == 9
MaxStep == 2
\* zigzag series of at most PadTurns turning points after a rising run of
\* PadBars bars (long enough for the momentum series to exist)
PadTurns == 6
PadBars == 26
\* zigzag series of at most SkipTurns turning points, one pair of which may
\* lack the bar half way between them
SkipTurns == 6
\* zigzag series of bars that all carry one timestamp: at most DayTurns
\* turning points, swings of 1 or DayLeap
DayTurns == 8
DayLeap == 3
\* trending zigzag series: at most TrendTurns turning points, swings of
\* TrendSwing + 1 with the trend and of TrendSwing against it
TrendTurns == 34
TrendSwing == 2
\* rising series: at most RiseBars bars, each 1..RiseStep above the one
\* before (one step may be one longer), of width 0..RiseWidth
RiseBars == 50
RiseStep == 2
RiseWidth == 1
\* the inclusion example: at most MergeExtra bars after its three bars
MergeExtra == 2
\* bars of any values, well-formed or not: at most AnyBars bars, values
\* 1..AnyPrice
AnyBars == 1
AnyPrice == 3
\* one bar of the twenty-nine is moved by up to LabelShift
LabelShift == 2
\* the short series: at most ShortBars flat bars, or a zigzag of at most
\* ShortTurns turning points
ShortBars == 3
ShortTurns == 7
\* the longest run of same-type fractals of the comb series, and how far one
\* of them may stand out
RunTeeth == 12
RunBoost == 30
\* one bar of the thirteen is moved by up to ChainShift
ChainShift == 3
\* bars are stamped up to StampHours hours apart
StampHours == 24
\* the long zigzag: one of its swings may be up to WaveStretch longer
WaveStretch == 1

\* ------------------------------------------------------------- arithmetic
Max(a, b) == IF a >= b THEN a ELSE b
Min(a, b) == IF a <= b THEN a ELSE b
Abs(a) == IF a >= 0 THEN a ELSE 0 - a
At(s, k) == s[k + 1]

\* n rounds of a loop whose body is Step.  A Step leaves the state of a loop
\* that has ended as it is, so n may exceed the rounds the loop makes.  (The
\* rounds are split in halves, the first half evaluated before the second.)
RECURSIVE Repeat(_, _, _)
Repeat(Step(_), state, n) ==
    IF n <= 0 THEN state
    ELSE IF n = 1 THEN Step(state)
    ELSE LET half == Repeat(Step, state, n \div 2)
         IN  IF half = half THEN Repeat(Step, half, n - n \div 2) ELSE half

\* least and greatest member of a non-empty set of integers
Least(S) == CHOOSE x \in S : \A y \in S : x <= y
Greatest(S) == CHOOSE x \in S : \A y \in S : x >= y

\* ------------------------------------------------------------------- Bar
\* the validation that only compares high with low
BarValidRangeOnly(b) == ~(b.high < b.low)

\* Bar.__post_init__: the three rejections of an ill-formed bar.
BarValid(b) ==
    /\ ~(b.high < b.low)
    /\ ~(b.high < Max(b.open, b.close))
    /\ ~(b.low > Min(b.open, b.close))

\* Bar.direction
BarDirection(b) == IF b.close >= b.open THEN "up" ELSE "down"

\* ------------------------------------------------------------ _merge_bars
_has_inclusion(bar1, bar2) ==
    \/ (bar1.high >= bar2.high /\ bar1.low <= bar2.low)
    \/ (bar2.high >= bar1.high /\ bar2.low <= bar1.low)

\* the bar that replaces merged[-1] when `current' is in inclusion with it
MergedBar(last, current, direction) ==
    LET new_high == IF direction = "up" THEN Max(last.high, current.high)
                                        ELSE Min(last.high, current.high)
        new_low  == IF direction = "up" THEN Max(last.low, current.low)
                                        ELSE Min(last.low, current.low)
    IN  [dt    |-> current.dt,
         open  |-> Max(Min(last.open, new_high), new_low),
         close |-> Max(Min(current.close, new_high), new_low),
         high  |-> new_high,
         low   |-> new_low,
         vol   |-> last.vol + current.vol,
         index |-> current.index]

\* the polarity taken from the last accumulated bar whatever came before
MergeDirectionOfLast(merged) == BarDirection(merged[Len(merged)])

\* which bar decides the polarity of a merge
MergeDirection(merged) ==
    IF Len(merged) >= 2 THEN BarDirection(merged[Len(merged) - 1])
                        ELSE BarDirection(merged[Len(merged)])

\* one round of the loop over raw[1:]; the loop state is [i, merged]
MergeLoop(raw, s) ==
    IF s.i >= Len(raw) THEN s
    ELSE LET current == At(raw, s.i)
             merged  == s.merged
             last    == merged[Len(merged)]
         IN  IF _has_inclusion(last, current)
             THEN [i |-> s.i + 1,
                   merged |-> [merged EXCEPT ![Len(merged)] =
                                 MergedBar(last, current, MergeDirection(merged))]]
             ELSE [i |-> s.i + 1, merged |-> Append(merged, current)]

\* _merge_bars without its early return: merged = [self.bars_raw[0]] on an
\* empty list raises IndexError, kept here as a marker in place of the bars
MergeBarsUnguarded(raw) ==
    IF Len(raw) = 0 THEN <<[raised |-> "IndexError"]>>
    ELSE Repeat(LAMBDA s : MergeLoop(raw, s),
                [i |-> 1, merged |-> <<At(raw, 0)>>], Len(raw)).merged

_merge_bars(raw) ==
    IF Len(raw) < 2 THEN raw
    ELSE Repeat(LAMBDA s : MergeLoop(raw, s),
                [i |-> 1, merged |-> <<At(raw, 0)>>], Len(raw)).merged

\* ------------------------------------------------------ _identify_fractals
TopFractal(bar1, bar2, bar3, n) ==
    [fractal_type |-> "top", dt |-> bar2.dt, high |-> bar2.high,
     low |-> bar2.low,
     power |-> Min(bar2.high - bar1.high, bar2.high - bar3.high),
     bars |-> <<bar1.index, bar2.index, bar3.index>>, index |-> n]

BottomFractal(bar1, bar2, bar3, n) ==
    [fractal_type |-> "bottom", dt |-> bar2.dt, high |-> bar2.high,
     low |-> bar2.low,
     power |-> Min(bar1.low - bar2.low, bar3.low - bar2.low),
     bars |-> <<bar1.index, bar2.index, bar3.index>>, index |-> n]

\* the top test with ties allowed
IsTopOrTie(bar1, bar2, bar3) == bar2.high >= bar1.high /\ bar2.high >= bar3.high

\* the top test looking at the bar before only
IsTopLeftOnly(bar1, bar2, bar3) == bar2.high > bar1.high

IsTop(bar1, bar2, bar3) == bar2.high > bar1.high /\ bar2.high > bar3.high
IsBottom(bar1, bar2, bar3) == bar2.low < bar1.low /\ bar2.low < bar3.low

\* one round of the while loop; the loop state is [i, fractals]
FractalLoop(bars, s) ==
    IF ~(s.i <= Len(bars) - 3) THEN s
    ELSE LET bar1 == At(bars, s.i)
             bar2 == At(bars, s.i + 1)
             bar3 == At(bars, s.i + 2)
             acc == s.fractals
         IN  IF IsTop(bar1, bar2, bar3)
             THEN [i |-> s.i + 2,
                   fractals |-> Append(acc, TopFractal(bar1, bar2, bar3, Len(acc)))]
             ELSE IF IsBottom(bar1, bar2, bar3)
             THEN [i |-> s.i + 2,
                   fractals |-> Append(acc, BottomFractal(bar1, bar2, bar3, Len(acc)))]
             ELSE [i |-> s.i + 1, fractals |-> acc]

_identify_fractals(bars) ==
    IF Len(bars) < 3 THEN <<>>
    ELSE Repeat(LAMBDA s : FractalLoop(bars, s),
                [i |-> 0, fractals |-> <<>>], Len(bars)).fractals

\* ------------------------------------------------- _has_enough_bars_between
\* position of the first merged bar stamped dt, -1 when there is none
_get_bar_index(bars, dt) ==
    LET found == {idx \in 0..(Len(bars) - 1) : At(bars, idx).dt = dt}
    IN  IF found = {} THEN -1 ELSE Least(found)

\* the loop at the end of _has_enough_bars_between keeps the LAST match
LastBarIndex(bars, dt) ==
    LET found == {idx \in 0..(Len(bars) - 1) : At(bars, idx).dt = dt}
    IN  IF found = {} THEN -1 ELSE Greatest(found)

FractalIndexGap == 1
BarIndexGap == 3

_has_enough_bars_between(bars, f1, f2) ==
    IF Abs(f2.index - f1.index) >= FractalIndexGap THEN TRUE
    ELSE IF Len(f1.bars) > 0 /\ Len(f2.bars) > 0
    THEN LET f1_bar_index == IF Len(f1.bars) >= 2 THEN At(f1.bars, 1)
                                                  ELSE At(f1.bars, 0)
             f2_bar_index == IF Len(f2.bars) >= 2 THEN At(f2.bars, 1)
                                                  ELSE At(f2.bars, 0)
         IN  Abs(f2_bar_index - f1_bar_index) >= BarIndexGap
    ELSE LET f1_index == LastBarIndex(bars, f1.dt)
             f2_index == LastBarIndex(bars, f2.dt)
         IN  IF f1_index = -1 \/ f2_index = -1 THEN TRUE
             ELSE Abs(f2_index - f1_index) >= BarIndexGap

\* ------------------------------------------------------- _identify_strokes
\* the price relation a stroke from `start' to `cand' must satisfy
ValidPrice(start, cand) ==
    IF start.fractal_type = "bottom" THEN cand.high > start.high
                                     ELSE cand.low < start.low

\* the direction rule with its two outcomes exchanged
StartDirectionSwapped(start) ==
    IF start.fractal_type = "bottom" THEN "down" ELSE "up"

StartDirection(start) == IF start.fractal_type = "bottom" THEN "up" ELSE "down"

FirstStartSpan == 15
LookAheadSpan == 10

\* inner loop of _find_first_valid_start: does fractal i reach some j
RECURSIVE CanStartFrom(_, _, _, _)
CanStartFrom(bars, fr, i, j) ==
    IF j >= Min(i + FirstStartSpan, Len(fr)) THEN FALSE
    ELSE LET fractal == At(fr, i)
             next_fractal == At(fr, j)
         IN  IF /\ next_fractal.fractal_type # fractal.fractal_type
                /\ _has_enough_bars_between(bars, fractal, next_fractal)
                /\ ValidPrice(fractal, next_fractal)
             THEN TRUE
             ELSE CanStartFrom(bars, fr, i, j + 1)

\* index of the fractal _find_first_valid_start returns: the first that can
\* start a stroke, fractal 0 when none can
_find_first_valid_start(bars, fr) ==
    LET valid == {i \in 0..(Len(fr) - 1) : CanStartFrom(bars, fr, i, i + 1)}
    IN  IF valid = {} THEN 0 ELSE Least(valid)

\* is `next' a more extreme end than `best' for a stroke of this direction
MoreExtremeEnd(direction, next, best) ==
    IF direction = "up" THEN next.high > best.high ELSE next.low < best.low

\* the look-ahead for a better end: index of the chosen end fractal
RECURSIVE BestEndFrom(_, _, _, _, _)
BestEndFrom(fr, i, j, direction, best_end_idx) ==
    IF j >= Min(i + LookAheadSpan, Len(fr)) THEN best_end_idx
    ELSE IF At(fr, j).fractal_type # At(fr, i).fractal_type THEN best_end_idx
    ELSE BestEndFrom(fr, i, j + 1, direction,
             IF MoreExtremeEnd(direction, At(fr, j), At(fr, best_end_idx))
             THEN j ELSE best_end_idx)

\* a same-type fractal replaces the start only when it is more extreme
ReplacesStart(start, cand) ==
    IF start.fractal_type = "top" THEN cand.high > start.high
                                  ELSE cand.low < start.low

NewStroke(bars, direction, start, end, n) ==
    [direction |-> direction, start_fractal |-> start, end_fractal |-> end,
     index |-> n, macd_area |-> 0,
     bar_start_idx |-> _get_bar_index(bars, start.dt),
     bar_end_idx |-> _get_bar_index(bars, end.dt)]

\* the end rule without the test of the fractal type
IsEndCandidateAnyType(start, cand) == TRUE

\* a fractal of the other type is needed to end a stroke
IsEndCandidate(start, cand) == cand.fractal_type # start.fractal_type

\* one round of the while loop; the loop state is [i, current_start, strokes]
StrokeLoop(bars, fr, s) ==
    IF s.i >= Len(fr) THEN s
    ELSE LET candidate_end == At(fr, s.i)
             current_start == s.current_start
             acc == s.strokes
         IN
         IF ~IsEndCandidate(current_start, candidate_end)
         THEN [i |-> s.i + 1,
               current_start |-> IF ReplacesStart(current_start, candidate_end)
                                 THEN candidate_end ELSE current_start,
               strokes |-> acc]
         ELSE IF ~_has_enough_bars_between(bars, current_start, candidate_end)
         THEN [s EXCEPT !.i = s.i + 1]
         ELSE IF ~ValidPrice(current_start, candidate_end)
         THEN [s EXCEPT !.i = s.i + 1]
         ELSE LET direction == StartDirection(current_start)
                  best_end_idx == BestEndFrom(fr, s.i, s.i + 1, direction, s.i)
                  best_end == At(fr, best_end_idx)
              IN  [i |-> best_end_idx + 1,
                   current_start |-> best_end,
                   strokes |-> Append(acc, NewStroke(bars, direction, current_start,
                                                     best_end, Len(acc)))]

_identify_strokes(bars, fr) ==
    IF Len(fr) < 2 THEN <<>>
    ELSE LET current_start_idx == _find_first_valid_start(bars, fr)
         IN  Repeat(LAMBDA s : StrokeLoop(bars, fr, s),
                    [i |-> current_start_idx + 1,
                     current_start |-> At(fr, current_start_idx),
                     strokes |-> <<>>], Len(fr)).strokes

\* Stroke properties
StrokeStartDt(s) == s.start_fractal.dt
StrokeEndDt(s) == s.end_fractal.dt
FractalPrice(f) == IF f.fractal_type = "top" THEN f.high ELSE f.low
StrokeStartPrice(s) == FractalPrice(s.start_fractal)
StrokeEndPrice(s) == FractalPrice(s.end_fractal)
StrokeHigh(s) == Max(s.start_fractal.high, s.end_fractal.high)
StrokeLow(s) == Min(s.start_fractal.low, s.end_fractal.low)
StrokePower(s) == Abs(StrokeEndPrice(s) - StrokeStartPrice(s))

\* ------------------------------------------------ _merge_feature_sequence
FeatureInclusion(last, current) ==
    \/ (last.high >= current.high /\ last.low <= current.low)
    \/ (current.high >= last.high /\ current.low <= last.low)

RECURSIVE FeatureMergeLoop(_, _, _, _)
FeatureMergeLoop(features, seg_direction, i, merged) ==
    IF i >= Len(features) THEN merged
    ELSE LET current == At(features, i)
             last == merged[Len(merged)]
         IN  IF FeatureInclusion(last, current)
             THEN IF seg_direction = "up"
                  THEN IF current.low < last.low
                       THEN FeatureMergeLoop(features, seg_direction, i + 1,
                              [merged EXCEPT ![Len(merged)] =
                                 [idx |-> current.idx,
                                  high |-> Min(last.high, current.high),
                                  low |-> current.low]])
                       ELSE FeatureMergeLoop(features, seg_direction, i + 1,
                                             merged)
                  ELSE IF current.high > last.high
                       THEN FeatureMergeLoop(features, seg_direction, i + 1,
                              [merged EXCEPT ![Len(merged)] =
                                 [idx |-> current.idx,
                                  high |-> current.high,
                                  low |-> Max(last.low, current.low)]])
                       ELSE FeatureMergeLoop(features, seg_direction, i + 1,
                                             merged)
             ELSE FeatureMergeLoop(features, seg_direction, i + 1,
                                   Append(merged, current))

_merge_feature_sequence(features, seg_direction) ==
    IF Len(features) < 2 THEN features
    ELSE FeatureMergeLoop(features, seg_direction, 1, <<At(features, 0)>>)

\* ------------------------------------------- _check_feature_sequence_fractal
\* the strokes of `collected' running against the segment, as feature elements
RECURSIVE FeatureElements(_, _, _)
FeatureElements(collected, seg_direction, idx) ==
    IF idx >= Len(collected) THEN <<>>
    ELSE LET stroke == At(collected, idx)
             rest == FeatureElements(collected, seg_direction, idx + 1)
         IN  IF stroke.direction # seg_direction
             THEN <<[idx |-> idx, high |-> StrokeHigh(stroke),
                     low |-> StrokeLow(stroke)]>> \o rest
             ELSE rest

\* the scan that takes a top for the end of an Up segment and a bottom for
\* the end of a Down segment
FeatureFractalSameKind(merged_features, seg_direction, i) ==
    LET hits == {p \in i..(Len(merged_features) - 3) :
                    IF seg_direction = "up"
                    THEN /\ At(merged_features, p + 1).high > At(merged_features, p).high
                         /\ At(merged_features, p + 1).high > At(merged_features, p + 2).high
                    ELSE /\ At(merged_features, p + 1).low < At(merged_features, p).low
                         /\ At(merged_features, p + 1).low < At(merged_features, p + 2).low}
    IN  IF hits = {} THEN -1 ELSE At(merged_features, Least(hits) + 1).idx

RECURSIVE FeatureFractalFrom(_, _, _)
FeatureFractalFrom(merged_features, seg_direction, i) ==
    IF i >= Len(merged_features) - 2 THEN -1
    ELSE LET f1 == At(merged_features, i)
             f2 == At(merged_features, i + 1)
             f3 == At(merged_features, i + 2)
         IN  IF seg_direction = "up"
             THEN IF f2.low < f1.low /\ f2.low < f3.low THEN f2.idx
                  ELSE FeatureFractalFrom(merged_features, seg_direction, i + 1)
             ELSE IF f2.high > f1.high /\ f2.high > f3.high THEN f2.idx
                  ELSE FeatureFractalFrom(merged_features, seg_direction, i + 1)

MinFeatures == 3

\* index (in `collected') of the stroke closing the segment, -1 for None
_check_feature_sequence_fractal(collected, seg_direction) ==
    LET feature_elements == FeatureElements(collected, seg_direction, 0)
    IN  IF Len(feature_elements) < MinFeatures THEN -1
        ELSE LET merged_features ==
                     _merge_feature_sequence(feature_elements, seg_direction)
             IN  IF Len(merged_features) < MinFeatures THEN -1
                 ELSE FeatureFractalFrom(merged_features, seg_direction, 0)

\* ---------------------------------------------------- _identify_one_segment
MaxHigh(ss) == Greatest({StrokeHigh(ss[k]) : k \in 1..Len(ss)})
MinLow(ss) == Least({StrokeLow(ss[k]) : k \in 1..Len(ss)})

NewSegment(direction, ss) ==
    [direction |-> direction,
     strokes |-> [k \in 1..Len(ss) |-> ss[k].index],
     start_dt |-> StrokeStartDt(ss[1]),
     end_dt |-> StrokeEndDt(ss[Len(ss)]),
     high |-> MaxHigh(ss), low |-> MinLow(ss), index |-> 0]

MinSegmentStrokes == 3
MaxSegmentStrokes == 25

\* the fallback accepting any non-empty collection of strokes
EnoughStrokesOne(ss) == Len(ss) >= 1

\* may the strokes collected so far be closed as a segment
EnoughStrokes(ss) == Len(ss) >= MinSegmentStrokes

NoSegment == [found |-> FALSE]

\* what _identify_one_segment returns for the strokes collected when its
\* loop ends without a closing fractal
SegmentFallback(start_idx, direction, collected) ==
    IF EnoughStrokes(collected)
    THEN [found |-> TRUE, segment |-> NewSegment(direction, collected),
          next_i |-> start_idx + Len(collected)]
    ELSE NoSegment

\* one round of the while loop of _identify_one_segment; the loop state is
\* [j, collected, done, result] with `collected' holding strokes[start_idx..j-1]
SegmentLoop(st, start_idx, direction, s) ==
    IF s.done THEN s
    ELSE IF s.j >= Len(st)
    THEN [s EXCEPT !.done = TRUE,
                   !.result = SegmentFallback(start_idx, direction, s.collected)]
    ELSE LET strokes_collected == Append(s.collected, At(st, s.j))
             feature_fractal ==
                 IF Len(strokes_collected) >= MinSegmentStrokes
                 THEN _check_feature_sequence_fractal(strokes_collected, direction)
                 ELSE -1
             strokes_in_segment ==
                 SubSeq(strokes_collected, 1, feature_fractal + 1)
         IN  IF feature_fractal # -1 /\ Len(strokes_in_segment) >= MinSegmentStrokes
             THEN [s EXCEPT !.done = TRUE,
                     !.result =
                        [found |-> TRUE,
                         segment |-> NewSegment(direction, strokes_in_segment),
                         next_i |-> start_idx + Len(strokes_in_segment) - 1]]
             ELSE IF Len(strokes_collected) >= MaxSegmentStrokes
             THEN [s EXCEPT !.done = TRUE,
                     !.result = SegmentFallback(start_idx, direction,
                                                strokes_collected)]
             ELSE [s EXCEPT !.j = s.j + 1, !.collected = strokes_collected]

_identify_one_segment(st, start_idx) ==
    IF start_idx >= Len(st) THEN NoSegment
    ELSE Repeat(LAMBDA s : SegmentLoop(st, start_idx,
                                       At(st, start_idx).direction, s),
                [j |-> start_idx, collected |-> <<>>, done |-> FALSE,
                 result |-> NoSegment],
                MaxSegmentStrokes + 1).result

\* ------------------------------------------------------ _identify_segments
\* the round of the while loop that stays where it is when no segment starts
\* at stroke i
SegmentsLoopNoAdvance(st, s) ==
    IF s.i >= Len(st) THEN s
    ELSE LET segment_result == _identify_one_segment(st, s.i)
         IN  IF segment_result.found
             THEN [i |-> segment_result.next_i,
                   segments |-> Append(s.segments,
                                       [segment_result.segment
                                           EXCEPT !.index = Len(s.segments)])]
             ELSE s

\* one round of the while loop; the loop state is [i, segments]
SegmentsLoop(st, s) ==
    IF s.i >= Len(st) THEN s
    ELSE LET segment_result == _identify_one_segment(st, s.i)
         IN  IF segment_result.found
             THEN [i |-> segment_result.next_i,
                   segments |-> Append(s.segments,
                                       [segment_result.segment
                                           EXCEPT !.index = Len(s.segments)])]
             ELSE [s EXCEPT !.i = s.i + 1]

_identify_segments(st) ==
    IF Len(st) < MinSegmentStrokes THEN <<>>
    ELSE Repeat(LAMBDA s : SegmentsLoop(st, s),
                [i |-> 0, segments |-> <<>>], Len(st)).segments

\* -------------------------------------------------------- _identify_pivots
\* the absorption rule without the overlap test
InPivotBandAlways(next_stroke, overlap_high, overlap_low) == TRUE

\* does the next stroke lie in the current overlap band
InPivotBand(next_stroke, overlap_high, overlap_low) ==
    StrokeLow(next_stroke) <= overlap_high /\ StrokeHigh(next_stroke) >= overlap_low

\* the seed test letting through an overlap of a single price
SeedsPivotTouching(overlap_high, overlap_low) == overlap_high >= overlap_low

\* a window of three strokes seeds a pivot when its overlap is not empty
SeedsPivot(overlap_high, overlap_low) == overlap_high > overlap_low

\* one round of the extension loop; the loop state is [j, high, low]
ExtendPivot(st, s) ==
    IF s.j >= Len(st) THEN s
    ELSE LET next_stroke == At(st, s.j)
         IN  IF InPivotBand(next_stroke, s.high, s.low)
             THEN [j |-> s.j + 1,
                   high |-> Min(s.high, StrokeHigh(next_stroke)),
                   low |-> Max(s.low, StrokeLow(next_stroke))]
             ELSE s

PivotWindow == 3

\* one round of the while loop; the loop state is [i, pivots]
PivotLoop(st, s) ==
    IF ~(s.i <= Len(st) - PivotWindow) THEN s
    ELSE LET i == s.i
             stroke1 == At(st, i)
             stroke2 == At(st, i + 1)
             stroke3 == At(st, i + 2)
             overlap_high == Min(StrokeHigh(stroke1),
                                 Min(StrokeHigh(stroke2), StrokeHigh(stroke3)))
             overlap_low == Max(StrokeLow(stroke1),
                                Max(StrokeLow(stroke2), StrokeLow(stroke3)))
         IN  IF SeedsPivot(overlap_high, overlap_low)
             THEN LET ext == Repeat(LAMBDA e : ExtendPivot(st, e),
                                    [j |-> i + 3, high |-> overlap_high,
                                     low |-> overlap_low], Len(st))
                      pivot == [level |-> 1,
                                direction |-> stroke1.direction,
                                high |-> ext.high, low |-> ext.low,
                                start_dt |-> StrokeStartDt(stroke1),
                                end_dt |-> StrokeEndDt(At(st, ext.j - 1)),
                                strokes |-> [k \in 1..(ext.j - i) |->
                                               At(st, i + k - 1).index],
                                index |-> Len(s.pivots),
                                trend_type |-> "unknown"]
                  IN  [i |-> ext.j, pivots |-> Append(s.pivots, pivot)]
             ELSE [s EXCEPT !.i = i + 1]

_identify_pivots(st) ==
    IF Len(st) < PivotWindow THEN <<>>
    ELSE Repeat(LAMBDA s : PivotLoop(st, s),
                [i |-> 0, pivots |-> <<>>], Len(st)).pivots

\* ---------------------------------------------------- _identify_trend_type
\* the test that only sees a pivot lying inside the one before it
PivotsOverlapInside(curr_pivot, prev_pivot) ==
    curr_pivot.low >= prev_pivot.low /\ curr_pivot.high <= prev_pivot.high

PivotsOverlap(curr_pivot, prev_pivot) ==
    curr_pivot.low <= prev_pivot.high /\ curr_pivot.high >= prev_pivot.low

\* center = (high + low) / 2, compared without the division
CenterHigher(curr_pivot, prev_pivot) ==
    curr_pivot.high + curr_pivot.low > prev_pivot.high + prev_pivot.low

\* one round of the loop over the pivots; the loop state is [i, pivots]
TrendLoop(s) ==
    LET ps == s.pivots
        i == s.i
    IN  IF i >= Len(ps) THEN s
        ELSE IF i = 0
        THEN [i |-> 1, pivots |-> [ps EXCEPT ![1].trend_type = "unknown"]]
        ELSE LET prev_pivot == At(ps, i - 1)
                 curr_pivot == At(ps, i)
                 label == IF PivotsOverlap(curr_pivot, prev_pivot) THEN "consolidation"
                          ELSE IF CenterHigher(curr_pivot, prev_pivot) THEN "trend_up"
                          ELSE "trend_down"
                 prev_label == IF label = "consolidation" THEN "consolidation"
                               ELSE IF prev_pivot.trend_type = "unknown" THEN label
                               ELSE prev_pivot.trend_type
             IN  [i |-> i + 1,
                  pivots |-> [ps EXCEPT ![i + 1].trend_type = label,
                                        ![i].trend_type = prev_label]]

_identify_trend_type(ps) ==
    IF Len(ps) < 1 THEN ps
    ELSE IF Len(ps) = 1 THEN [ps EXCEPT ![1].trend_type = "consolidation"]
    ELSE Repeat(TrendLoop, [i |-> 0, pivots |-> ps], Len(ps)).pivots

\* --------------------------------------------------------- _calculate_macd
\* The series are kept in fixed point: one unit is 1/PerUnit.  FloorUnits is
\* the 0.001 floor of the divergence test in those units.
PerUnit == 10000
FloorUnits == PerUnit \div 1000
MacdShort == 12
MacdLong == 26
MacdSignal == 9

\* ema(): result[0] = data[0]; result[i] = alpha*data[i] + (1-alpha)*result[i-1]
\* with alpha = 2 / (period + 1)
\* one round of the loop of ema(); the loop state is the result so far
EmaLoop(data, period, result) ==
    LET i == Len(result)
    IN  IF i >= Len(data) THEN result
        ELSE Append(result,
                    (2 * At(data, i) + (period - 1) * result[Len(result)])
                        \div (period + 1))

Ema(data, period) ==
    IF Len(data) = 0 THEN <<>>
    ELSE Repeat(LAMBDA result : EmaLoop(data, period, result),
                <<At(data, 0)>>, Len(data))

\* the three series [dif, dea, hist] over the closes of the merged bars
MacdSeries(bars) ==
    LET closes == [k \in 1..Len(bars) |-> bars[k].close * PerUnit]
        ema_short == Ema(closes, MacdShort)
        ema_long == Ema(closes, MacdLong)
        dif == [k \in 1..Len(bars) |-> ema_short[k] - ema_long[k]]
        dea == Ema(dif, MacdSignal)
    IN  [dif |-> dif, dea |-> dea,
         hist |-> [k \in 1..Len(bars) |-> (dif[k] - dea[k]) * 2]]

\* the series computed whatever the number of bars
MacdWithoutGuard(bars) == MacdSeries(bars)

_calculate_macd(bars) ==
    IF Len(bars) < MacdLong
    THEN [dif |-> <<>>, dea |-> <<>>, hist |-> <<>>]
    ELSE MacdSeries(bars)

\* ---------------------------------------------- _calculate_stroke_macd_area
\* sum(abs(h) for h in hist[from..to])
RECURSIVE AbsSum(_, _, _)
AbsSum(hist, from, to) ==
    IF from > to THEN 0
    ELSE IF from = to THEN Abs(At(hist, from))
    ELSE LET mid == (from + to) \div 2
         IN  AbsSum(hist, from, mid) + AbsSum(hist, mid + 1, to)

StrokeMacdArea(hist, stroke) ==
    LET start_idx == stroke.bar_start_idx
        end_idx == stroke.bar_end_idx
    IN  IF start_idx < 0 \/ end_idx < 0 \/ start_idx >= Len(hist)
        THEN stroke.macd_area
        ELSE AbsSum(hist, start_idx, Min(end_idx, Len(hist) - 1))

_calculate_stroke_macd_area(hist, st) ==
    IF Len(hist) = 0 THEN st
    ELSE [k \in 1..Len(st) |->
             [st[k] EXCEPT !.macd_area = StrokeMacdArea(hist, st[k])]]

\* ---------------------------------------------------------------- fractions
RECURSIVE Gcd(_, _)
Gcd(a, b) == IF b = 0 THEN a ELSE Gcd(b, a % b)

\* the fraction n/d (d > 0, n >= 0) in lowest terms
Frac(n, d) == LET g == Gcd(n, d) IN [n |-> n \div g, d |-> d \div g]
FracLess(x, y) == x.n * y.d < y.n * x.d
FracLeq(x, y) == x.n * y.d <= y.n * x.d
FracMin(x, y) == IF FracLeq(x, y) THEN x ELSE y
\* a + b * x for the two-decimal constants a = a100/100 and b = b100/100
FracAffine(a100, b100, x) == Frac(a100 * x.d + b100 * x.n, 100 * x.d)
\* 1 - x for x <= 1
FracOneMinus(x) == Frac(x.d - x.n, x.d)
FracZero == [n |-> 0, d |-> 1]

\* ---------------------------------------------- _identify_first_class_points
NewTradePoint(point_type, dt, price, strength, macd_strength, n) ==
    [point_type |-> point_type, dt |-> dt, price |-> price,
     strength |-> strength, macd_strength |-> macd_strength, index |-> n]

\* index of the nearest earlier stroke of the same direction, stepping back
\* two at a time from j; -1 for None
RECURSIVE PrevSameDir(_, _, _)
PrevSameDir(st, current, j) ==
    IF j < 0 THEN -1
    ELSE IF At(st, j).direction = current.direction THEN j
    ELSE PrevSameDir(st, current, j - 2)

\* a denominator floored at 0.001
Floored(x) == Max(x * PerUnit, FloorUnits)
\* a momentum area, replaced by 0.001 when it is not positive
MacdOrFloor(area) == IF area > 0 THEN area ELSE FloorUnits

DivergenceLimit == Frac(8, 10)
IsDivergence(ratio) == FracLess(ratio, DivergenceLimit)
\* 1 - ratio whether or not the ratio is a divergence
DivergenceStrengthUnguarded(ratio) == FracOneMinus(ratio)
DivergenceStrength(ratio) ==
    IF IsDivergence(ratio) THEN FracOneMinus(ratio) ELSE FracZero

CombinedStrength(price_ratio, macd_ratio) ==
    LET price_strength == DivergenceStrength(price_ratio)
        macd_strength == DivergenceStrength(macd_ratio)
    IN  IF IsDivergence(price_ratio) /\ IsDivergence(macd_ratio)
        THEN FracAffine(80, 15, FracMin(price_strength, macd_strength))
        ELSE IF IsDivergence(price_ratio)
        THEN FracAffine(60, 20, price_strength)
        ELSE IF IsDivergence(macd_ratio)
        THEN FracAffine(55, 20, macd_strength)
        ELSE Frac(50, 100)

StrengthCap == Frac(95, 100)
FirstClassStrength(price_ratio, macd_ratio) ==
    FracMin(StrengthCap, CombinedStrength(price_ratio, macd_ratio))

FirstClassFrom == 4
MinFirstClassStrokes == 5

\* body of the loop over i: trade_points after looking at stroke i
FirstClassStep(st, i, tps) ==
    LET current == At(st, i)
        j == PrevSameDir(st, current, i - 2)
    IN  IF j = -1 THEN tps
        ELSE LET prev_same_dir == At(st, j)
                 price_ratio == Frac(StrokePower(current) * PerUnit,
                                     Floored(StrokePower(prev_same_dir)))
                 macd_ratio == Frac(MacdOrFloor(current.macd_area),
                                    Max(MacdOrFloor(prev_same_dir.macd_area), FloorUnits))
             IN  IF ~(IsDivergence(price_ratio) \/ IsDivergence(macd_ratio))
                 THEN tps
                 ELSE IF current.direction = "down"
                 THEN IF StrokeEndPrice(current) <= StrokeEndPrice(prev_same_dir)
                      THEN Append(tps, NewTradePoint("buy_1",
                               StrokeEndDt(current), StrokeEndPrice(current),
                               FirstClassStrength(price_ratio, macd_ratio),
                               DivergenceStrength(macd_ratio), Len(tps)))
                      ELSE tps
                 ELSE IF StrokeEndPrice(current) >= StrokeEndPrice(prev_same_dir)
                      THEN Append(tps, NewTradePoint("sell_1",
                               StrokeEndDt(current), StrokeEndPrice(current),
                               FirstClassStrength(price_ratio, macd_ratio),
                               DivergenceStrength(macd_ratio), Len(tps)))
                      ELSE tps

\* one round of the loop over i; the loop state is [i, trade_points]
FirstClassLoop(st, s) ==
    IF s.i >= Len(st) THEN s
    ELSE [i |-> s.i + 1, trade_points |-> FirstClassStep(st, s.i, s.trade_points)]

\* the loop started at the third stroke, without the guard on the length
FirstClassPointsFromThird(st, tps) ==
    Repeat(LAMBDA s : FirstClassLoop(st, s),
           [i |-> 2, trade_points |-> tps], Len(st)).trade_points

_identify_first_class_points(st, tps) ==
    IF Len(st) < MinFirstClassStrokes THEN tps
    ELSE Repeat(LAMBDA s : FirstClassLoop(st, s),
                [i |-> FirstClassFrom, trade_points |-> tps],
                Len(st)).trade_points

\* --------------------------------------------- _identify_second_class_points
\* index of the first stroke ending at dt, -1 when there is none
StrokeEndingAt(st, dt) ==
    LET found == {idx \in 0..(Len(st) - 1) : StrokeEndDt(At(st, idx)) = dt}
    IN  IF found = {} THEN -1 ELSE Least(found)

SecondClassStrength == Frac(75, 100)
ThirdClassStrength == Frac(70, 100)

\* the second-class point a first-class point gives rise to, appended to tps
SecondClassStep(st, first, tps) ==
    LET stroke_idx == StrokeEndingAt(st, first.dt)
    IN  IF stroke_idx < 0 \/ stroke_idx + 2 >= Len(st) THEN tps
        ELSE LET pullback == At(st, stroke_idx + 2)
             IN  IF first.point_type = "buy_1"
                 THEN IF /\ pullback.direction = "down"
                         /\ StrokeEndPrice(pullback) > first.price
                      THEN Append(tps, NewTradePoint("buy_2",
                               StrokeEndDt(pullback), StrokeEndPrice(pullback),
                               SecondClassStrength, FracZero, Len(tps)))
                      ELSE tps
                 ELSE IF /\ pullback.direction = "up"
                         /\ StrokeEndPrice(pullback) < first.price
                      THEN Append(tps, NewTradePoint("sell_2",
                               StrokeEndDt(pullback), StrokeEndPrice(pullback),
                               SecondClassStrength, FracZero, Len(tps)))
                      ELSE tps

\* one round of a loop over first-class points; the loop state is
\* [k, trade_points]
SecondClassLoop(st, firsts, s) ==
    IF s.k > Len(firsts) THEN s
    ELSE [k |-> s.k + 1,
          trade_points |-> SecondClassStep(st, firsts[s.k], s.trade_points)]

_identify_second_class_points(st, tps) ==
    LET first_buys == SelectSeq(tps, LAMBDA tp : tp.point_type = "buy_1")
        first_sells == SelectSeq(tps, LAMBDA tp : tp.point_type = "sell_1")
        after_buys == Repeat(LAMBDA s : SecondClassLoop(st, first_buys, s),
                             [k |-> 1, trade_points |-> tps],
                             Len(first_buys)).trade_points
    IN  Repeat(LAMBDA s : SecondClassLoop(st, first_sells, s),
               [k |-> 1, trade_points |-> after_buys],
               Len(first_sells)).trade_points

\* ---------------------------------------------- _identify_third_class_points
\* what the detector appends for a leave / return pair that qualifies as Buy3
ThirdBuyAppend(tps, return_stroke) ==
    Append(tps, NewTradePoint("buy_3", StrokeEndDt(return_stroke),
                              StrokeEndPrice(return_stroke),
                              ThirdClassStrength, FracZero, Len(tps)))

\* ... and as Sell3: the TradePoint is built and dropped, nothing is appended
ThirdSellAppend(tps, return_stroke) == tps

IsThirdBuy(pivot, leave_stroke, return_stroke) ==
    /\ leave_stroke.direction = "up" /\ StrokeLow(leave_stroke) > pivot.high
    /\ return_stroke.direction = "down" /\ StrokeLow(return_stroke) > pivot.high

IsThirdSell(pivot, leave_stroke, return_stroke) ==
    /\ leave_stroke.direction = "down" /\ StrokeHigh(leave_stroke) < pivot.low
    /\ return_stroke.direction = "up" /\ StrokeHigh(return_stroke) < pivot.low

ThirdClassStep(st, pivot, tps) ==
    LET pivot_end_index == StrokeEndingAt(st, pivot.end_dt)
    IN  IF pivot_end_index < 0 \/ pivot_end_index + 2 >= Len(st) THEN tps
        ELSE LET leave_stroke == At(st, pivot_end_index + 1)
                 return_stroke == At(st, pivot_end_index + 2)
                 after_buy == IF IsThirdBuy(pivot, leave_stroke, return_stroke)
                              THEN ThirdBuyAppend(tps, return_stroke) ELSE tps
             IN  IF IsThirdSell(pivot, leave_stroke, return_stroke)
                 THEN ThirdSellAppend(after_buy, return_stroke) ELSE after_buy

\* one round of the loop over the pivots; the loop state is [k, trade_points]
ThirdClassLoop(st, ps, s) ==
    IF s.k > Len(ps) THEN s
    ELSE [k |-> s.k + 1,
          trade_points |-> ThirdClassStep(st, ps[s.k], s.trade_points)]

_identify_third_class_points(st, ps, tps) ==
    Repeat(LAMBDA s : ThirdClassLoop(st, ps, s),
           [k |-> 1, trade_points |-> tps], Len(ps)).trade_points

\* --------------------------------------------------- _identify_trade_points
\* the detected list left in detection order
SortByDtSkipped(tps) == tps

\* list.sort(key=dt): a stable sort, as an insertion sort.  tp goes after
\* every point of the sorted list that is not later than it.
InsertByDt(sorted, tp) ==
    LET k == Cardinality({j \in 1..Len(sorted) : sorted[j].dt <= tp.dt})
    IN  SubSeq(sorted, 1, k) \o <<tp>> \o SubSeq(sorted, k + 1, Len(sorted))

\* one round of the sort; the loop state is [k, sorted]
SortLoop(tps, s) ==
    IF s.k > Len(tps) THEN s
    ELSE [k |-> s.k + 1, sorted |-> InsertByDt(s.sorted, tps[s.k])]

SortByDt(tps) ==
    Repeat(LAMBDA s : SortLoop(tps, s), [k |-> 1, sorted |-> <<>>],
           Len(tps)).sorted

Reindex(tps) == [k \in 1..Len(tps) |-> [tps[k] EXCEPT !.index = k - 1]]

\* the shared list after the three sub-detectors have run
DetectedTradePoints(st, ps) ==
    _identify_third_class_points(st, ps,
        _identify_second_class_points(st,
            _identify_first_class_points(st, <<>>)))

_identify_trade_points(st, ps) == Reindex(SortByDt(DetectedTradePoints(st, ps)))

\* ------------------------------------------------------ MultiLevelAnalyzer
MinLevels == 1
MaxLevels == 5
DefaultLevels == 3

\* self.levels = min(max(levels, 1), 5)
ClampLevels(n) == Min(Max(n, MinLevels), MaxLevels)

\* the bar of a segment drawn as a rising bar whatever the direction
SegmentBarRising(seg, i) ==
    [dt |-> seg.end_dt, open |-> seg.low, close |-> seg.high,
     high |-> seg.high, low |-> seg.low, vol |-> 0, index |-> i]

\* one bar per segment: the segment's range, its body running with the
\* segment's direction, stamped with the segment's end
SegmentBar(seg, i) ==
    [dt |-> seg.end_dt,
     open |-> IF seg.direction = "up" THEN seg.low ELSE seg.high,
     close |-> IF seg.direction = "up" THEN seg.high ELSE seg.low,
     high |-> seg.high, low |-> seg.low, vol |-> 0, index |-> i]

_segments_to_bars(segs) == [k \in 1..Len(segs) |-> SegmentBar(segs[k], k - 1)]

MinHigherBars == 3

\* the test that lets a level of any number of bars be analysed
HasEnoughBarsAlways(higher_bars) == TRUE

\* the loop of _analyze goes on unless len(higher_bars) < 3
HasEnoughBars(higher_bars) == ~(Len(higher_bars) < MinHigherBars)

ToleranceDays == 5

\* timestamps count hours; timedelta.days is the number of whole days of a
\* difference, rounded down (also below zero)
HoursPerDay == 24
days(delta) == delta \div HoursPerDay
NestedCap == Frac(98, 100)

\* does the analyzer of this level hold a point of base_tp's type close by
ConfirmedAt(ans, base_tp, lv) ==
    /\ lv <= Len(ans)
    /\ \E k \in 1..Len(ans[lv].trade_points) :
           /\ ans[lv].trade_points[k].point_type = base_tp.point_type
           /\ Abs(days(ans[lv].trade_points[k].dt - base_tp.dt))
                  <= lv * ToleranceDays

confirmation_count(ans, lvs, base_tp) ==
    1 + Cardinality({lv \in 2..lvs : ConfirmedAt(ans, base_tp, lv)})

\* min(0.98, strength + 0.1 * (confirmation_count - 1))
enhanced_strength(strength, count) ==
    FracMin(NestedCap, Frac(10 * strength.n + (count - 1) * strength.d,
                            10 * strength.d))

\* one round of the loop over the points of level 1; the loop state is
\* [k, nested_points]
NestedLoop(ans, lvs, s) ==
    LET base_points == ans[1].trade_points IN
    IF s.k > Len(base_points) THEN s
    ELSE LET base_tp == base_points[s.k]
             count == confirmation_count(ans, lvs, base_tp)
             nested_points == s.nested_points
         IN  IF count >= 2
             THEN [k |-> s.k + 1,
                   nested_points |->
                      Append(nested_points,
                             NewTradePoint(base_tp.point_type, base_tp.dt,
                                           base_tp.price,
                                           enhanced_strength(base_tp.strength, count),
                                           base_tp.macd_strength,
                                           Len(nested_points)))]
             ELSE [s EXCEPT !.k = s.k + 1]

_find_nested_trade_points(ans, lvs) ==
    IF Len(ans) = 0 THEN <<>>
    ELSE Repeat(LAMBDA s : NestedLoop(ans, lvs, s),
                [k |-> 1, nested_points |-> <<>>],
                Len(ans[1].trade_points)).nested_points

\* ------------------------------------------------ ChanlunAnalyzer.__init__
\* bar number i of the input: bars are stamped one day apart, in order
RawBar(i, low, high, open, close) ==
    [dt |-> i * HoursPerDay, open |-> open, close |-> close, high |-> high, low |-> low,
     vol |-> 1, index |-> i]

\* MultiLevelAnalyzer(raw, levels_arg), about to analyse level 1
Constructed(raw, levels_arg) ==
    /\ bar_args = raw
    /\ requested_levels = levels_arg
    /\ self_bars = raw
    /\ levels = ClampLevels(levels_arg)
    /\ level = 1
    /\ analyzers = <<>>
    /\ nested_trade_points = <<>>
    /\ pc = "merge_bars"
    /\ bars_raw = raw
    /\ bars_merged = <<>>
    /\ macd_dif = <<>> /\ macd_dea = <<>> /\ macd_hist = <<>>
    /\ fractals = <<>> /\ strokes = <<>> /\ segments = <<>>
    /\ pivots = <<>> /\ trade_points = <<>>

\* input family 1: a few bars of any valid shape, rising or falling body
WideShapes ==
    {[low |-> l, high |-> h, up |-> u] :
        l \in 1..MaxPrice, h \in 1..MaxPrice, u \in BOOLEAN}

WideBar(i, sh) ==
    RawBar(i, Min(sh.low, sh.high), Max(sh.low, sh.high),
           IF sh.up THEN Min(sh.low, sh.high) ELSE Max(sh.low, sh.high),
           IF sh.up THEN Max(sh.low, sh.high) ELSE Min(sh.low, sh.high))

InitWide ==
    \E n \in 0..MaxBars : \E f \in [1..n -> WideShapes] :
        Constructed([k \in 1..n |-> WideBar(k - 1, f[k])], DefaultLevels)

\* input family 2: bars with open = close = high = low
FlatBar(i, v) == RawBar(i, v, v, v, v)

InitFlat ==
    \E n \in 0..MaxFlat : \E f \in [1..n -> 1..MaxFlatPrice] :
        Constructed([k \in 1..n |-> FlatBar(k - 1, f[k])], DefaultLevels)

\* input family 3: a zigzag of flat bars.  Turning point k has value
\* ZigTurn(k); each pair of turning points has one bar half way between
\* them, and the series starts and ends one tick inside its first and last
\* turning point.  Prices are doubled so that the half-way bar is integral.
ZigBase == NumTurns * MaxStep + PadBars + TrendTurns * (TrendSwing + 1) + 2

\* the swings from[..to] of d, each counted up or down
RECURSIVE ZigSum(_, _, _, _)
ZigSum(top_first, d, from, to) ==
    IF from > to THEN 0
    ELSE IF from = to
    THEN IF top_first = ((from % 2) = 1) THEN 0 - d[from] ELSE d[from]
    ELSE LET mid == (from + to) \div 2
         IN  ZigSum(top_first, d, from, mid) + ZigSum(top_first, d, mid + 1, to)

ZigTurn(top_first, d, k) == ZigBase + ZigSum(top_first, d, 1, k - 1)

\* is turning point k a top
ZigIsTop(top_first, k) == (top_first = ((k % 2) = 1))

ZigPrice(top_first, d, n, pos) ==
    IF pos = 0
    THEN 2 * ZigTurn(top_first, d, 1) + (IF top_first THEN -1 ELSE 1)
    ELSE IF pos = 2 * n
    THEN 2 * ZigTurn(top_first, d, n) + (IF ZigIsTop(top_first, n) THEN -1 ELSE 1)
    ELSE IF pos % 2 = 1
    THEN 2 * ZigTurn(top_first, d, (pos + 1) \div 2)
    ELSE ZigTurn(top_first, d, pos \div 2) + ZigTurn(top_first, d, pos \div 2 + 1)

ZigBars(top_first, d, n, pad) ==
    [k \in 1..(pad + 2 * n + 1) |->
        IF k <= pad
        THEN FlatBar(k - 1, ZigPrice(top_first, d, n, 0) - (pad + 1 - k))
        ELSE FlatBar(k - 1, ZigPrice(top_first, d, n, k - 1 - pad))]

InitZig ==
    \E n \in 1..NumTurns : \E d \in [1..(n - 1) -> 1..MaxStep] :
    \E top_first \in BOOLEAN :
        Constructed(ZigBars(top_first, d, n, 0), DefaultLevels)

\* input family 4: the same zigzag after a run of PadBars rising bars
InitPad ==
    \E n \in 1..PadTurns : \E d \in [1..(n - 1) -> 1..MaxStep] :
    \E top_first \in BOOLEAN :
        Constructed(ZigBars(top_first, d, n, PadBars), DefaultLevels)

\* input family 5: a zigzag in which turning points g and g + 1 are adjacent
\* bars (g = 0: none are), so that the scan passes over turning point g + 1
SkipBars(top_first, d, n, g) ==
    LET full == ZigBars(top_first, d, n, 0)
    IN  IF g = 0 THEN full
        ELSE [k \in 1..(Len(full) - 1) |->
                 FlatBar(k - 1, (IF k <= 2 * g THEN full[k] ELSE full[k + 1]).high)]

InitSkip ==
    \E n \in 1..SkipTurns : \E d \in [1..(n - 1) -> 1..MaxStep] :
    \E top_first \in BOOLEAN : \E g \in 0..(n - 1) :
        Constructed(SkipBars(top_first, d, n, g), DefaultLevels)

\* input family 6: intraday bars stamped with their day only, all of one day
SameStamp(series) == [k \in 1..Len(series) |-> [series[k] EXCEPT !.dt = 0]]

InitDay ==
    \E n \in 1..DayTurns : \E d \in [1..(n - 1) -> {1, DayLeap}] :
    \E top_first \in BOOLEAN :
        Constructed(SameStamp(ZigBars(top_first, d, n, 0)), DefaultLevels)

\* input family 7: a zigzag that trends one way for its first m swings and
\* the other way after them; lead says whether the odd swings carry the
\* first trend
TrendSteps(n, m, lead) ==
    [k \in 1..(n - 1) |->
        IF ((k % 2 = 1) = lead) = (k <= m) THEN TrendSwing + 1 ELSE TrendSwing]

InitTrend ==
    \E n \in 1..TrendTurns : \E m \in 0..(n - 1) :
        \E lead \in BOOLEAN : \E top_first \in BOOLEAN :
            Constructed(ZigBars(top_first, TrendSteps(n, m, lead), n, 0),
                        DefaultLevels)

\* input family 8: a zigzag long enough for its segments to carry a second
\* level that has trade points of its own.  WaveSteps are its swings, from a
\* bottom; swing k may be lengthened.
WaveSteps ==
    <<4, 2, 1, 2, 3, 1, 2, 3, 1, 6, 4, 2, 5, 3, 1, 6, 6, 4, 5, 6, 5, 1, 3,
      2, 1, 2, 3, 1, 2, 3, 1, 4, 1, 4, 5, 4, 5, 4, 1, 5, 4, 1, 2, 3, 1, 1,
      4, 2, 1, 2, 3, 1, 2, 4, 1, 3, 3, 2, 4, 3, 1, 5, 5, 2, 3, 4, 1, 1, 5>>

InitWave ==
    \E k \in 1..Len(WaveSteps) : \E e \in 0..WaveStretch :
        Constructed(ZigBars(FALSE, [WaveSteps EXCEPT ![k] = @ + e],
                            Len(WaveSteps) + 1, 0), DefaultLevels)

\* input family 12: the first n turning points of the long zigzag, analysed
\* with any number of requested levels from below the least to above the most
InitLevels ==
    \E n \in 1..(Len(WaveSteps) + 1) :
        \E levels_arg \in (MinLevels - 1)..(MaxLevels + 1) :
            Constructed(ZigBars(FALSE, WaveSteps, n, 0), levels_arg)

\* input family 13: the long zigzag with its bars stamped any whole number
\* of hours apart, up to StampHours
Restamp(series, hours) ==
    [k \in 1..Len(series) |-> [series[k] EXCEPT !.dt = (k - 1) * hours]]

InitHours ==
    \E hours \in 1..StampHours : \E top_first \in BOOLEAN :
        Constructed(Restamp(ZigBars(top_first, WaveSteps, Len(WaveSteps) + 1, 0),
                            hours), DefaultLevels)

\* input family 14: thirteen bars with a bottom, a top, a lower top, a
\* bottom above the low of the first top, a higher top and a low bottom; one
\* of the bars may have its low and its high moved by up to ChainShift
ChainLows == <<6, 4, 6, 10, 8, 14, 13, 12, 13, 14, 13, 8, 10>>
ChainHighs == <<14, 12, 16, 20, 16, 19, 18, 17, 18, 22, 21, 18, 19>>

InitChain ==
    \E j \in 1..Len(ChainLows) :
        \E a \in (0 - ChainShift)..ChainShift : \E b \in (0 - ChainShift)..ChainShift :
            Constructed([k \in 1..Len(ChainLows) |->
                            LET low == ChainLows[k] + (IF k = j THEN a ELSE 0)
                                high == ChainHighs[k] + (IF k = j THEN b ELSE 0)
                            IN  RawBar(k - 1, low, high, low, high)],
                        DefaultLevels)

\* input family 15: twenty-nine bars that give three pivots, the second
\* clear above the first and the third, found after a stroke that starts at
\* a later and higher top than the one before it ends at, reaching back into
\* the second; either the first n of them, or all with the low and the high
\* of one bar moved by up to LabelShift
LabelLows ==
    <<15, 10, 30, 50, 40, 30, 60, 90, 80, 70, 90, 110, 75, 40, 47, 55, 53, 60,
      58, 56, 93, 130, 110, 90, 100, 110, 102, 95, 96>>
LabelHighs ==
    <<25, 20, 40, 60, 50, 40, 70, 100, 90, 80, 100, 120, 85, 50, 57, 65, 62,
      64, 63, 62, 101, 140, 117, 95, 110, 125, 112, 100, 101>>

InitLabel ==
    \E n \in 1..Len(LabelLows) : \E j \in 1..n :
        \E a \in (0 - LabelShift)..LabelShift : \E b \in (0 - LabelShift)..LabelShift :
            /\ n = Len(LabelLows) \/ (j = 1 /\ a = 0 /\ b = 0)
            /\ Constructed([k \in 1..n |->
                               LET low == LabelLows[k] + (IF k = j THEN a ELSE 0)
                                   high == LabelHighs[k] + (IF k = j THEN b ELSE 0)
                               IN  RawBar(k - 1, low, high, low, high)],
                           DefaultLevels)

\* input family 16: a comb of flat bars.  A bottom, then n teeth: every other
\* bar is a tooth, the bars between them lie lower, and the scan of the
\* fractals, which skips the bar after each fractal, sees the teeth only: a
\* run of n tops.  The teeth rise or fall by one from each to the next, and
\* tooth j (j = 0: none) stands out by `boost'.  `down' mirrors the series:
\* a top, then a run of bottoms.
RunValue(i, n, j, boost, rising) ==
    IF i = 0 THEN 30
    ELSE IF i = 1 THEN 10
    ELSE IF i = 2 THEN 20
    ELSE IF i % 2 = 0 THEN 40
    ELSE LET k == (i - 3) \div 2
         IN  50 + (IF rising THEN k ELSE n - 1 - k) + (IF k + 1 = j THEN boost ELSE 0)

RunBar(i, n, j, boost, rising, down) ==
    LET v == RunValue(i, n, j, boost, rising)
        w == IF down THEN 100 - v ELSE v
    IN  RawBar(i, w, w, w, w)

InitRun ==
    \E n \in 1..RunTeeth : \E j \in 0..n : \E boost \in {0, RunBoost} :
        \E rising \in BOOLEAN : \E down \in BOOLEAN :
            /\ (j = 0) = (boost = 0)
            /\ Constructed([k \in 1..(3 + 2 * n) |->
                               RunBar(k - 1, n, j, boost, rising, down)],
                           DefaultLevels)

\* input family 17: series around the minimum windows of the stages: a few
\* flat bars, or a zigzag with few turning points
InitShort ==
    \/ \E n \in 0..ShortBars : \E f \in [1..n -> 1..MaxFlatPrice] :
           Constructed([k \in 1..n |-> FlatBar(k - 1, f[k])], DefaultLevels)
    \/ \E n \in 1..ShortTurns : \E d \in [1..(n - 1) -> 1..MaxStep] :
       \E top_first \in BOOLEAN :
           Constructed(ZigBars(top_first, d, n, 0), DefaultLevels)

\* input family 9: a series whose lows and highs both rise from each bar to
\* the next: steps of `step', the step into bar j one longer (j = 0: none)
RiseBar(i, step, width, j, up) ==
    LET low == 1 + i * step + (IF j > 0 /\ i >= j THEN 1 ELSE 0)
        high == low + width
    IN  RawBar(i, low, high, IF up THEN low ELSE high, IF up THEN high ELSE low)

InitRise ==
    \E n \in 0..RiseBars : \E step \in 1..RiseStep : \E width \in 0..RiseWidth :
        \E j \in 0..(n - 1) : \E up \in BOOLEAN :
            Constructed([k \in 1..n |-> RiseBar(k - 1, step, width, j, up)],
                        DefaultLevels)

\* input family 10: the three bars of test_inclusion_handling, followed by
\* at most MergeExtra bars with low and high among MergePrices
InclusionBars ==
    <<RawBar(0, 95, 115, 100, 110), RawBar(1, 100, 112, 110, 105),
      RawBar(2, 103, 120, 105, 115)>>

MergePrices == <<110, 112, 120, 125>>

MergeShapes ==
    {[low |-> MergePrices[l], high |-> MergePrices[h], up |-> u] :
        l \in 1..Len(MergePrices), h \in 1..Len(MergePrices), u \in BOOLEAN}

InitMerge ==
    \/ InitWide
    \/ \E n \in 0..MergeExtra : \E f \in [1..n -> MergeShapes] :
           Constructed(InclusionBars
                           \o [k \in 1..n |-> WideBar(k + 2, f[k])],
                       DefaultLevels)

\* input family 11: the caller builds bars from any four values; a bar that
\* Bar.__post_init__ rejects raises ValueError and nothing is analysed
AnyArgs ==
    {[low |-> l, high |-> h, open |-> o, close |-> c] :
        l \in 1..AnyPrice, h \in 1..AnyPrice, o \in 1..AnyPrice, c \in 1..AnyPrice}

Rejected(args) ==
    /\ bar_args = args
    /\ requested_levels = DefaultLevels
    /\ pc = "rejected"
    /\ self_bars = <<>> /\ levels = 0 /\ level = 0
    /\ analyzers = <<>> /\ nested_trade_points = <<>>
    /\ bars_raw = <<>> /\ bars_merged = <<>>
    /\ macd_dif = <<>> /\ macd_dea = <<>> /\ macd_hist = <<>>
    /\ fractals = <<>> /\ strokes = <<>> /\ segments = <<>>
    /\ pivots = <<>> /\ trade_points = <<>>

InitAny ==
    \E n \in 1..AnyBars : \E f \in [1..n -> AnyArgs] :
        LET args == [k \in 1..n |->
                        RawBar(k - 1, f[k].low, f[k].high, f[k].open, f[k].close)]
        IN  IF \A k \in 1..n : BarValid(args[k])
            THEN Constructed(args, DefaultLevels)
            ELSE Rejected(args)

\* ------------------------------------------------ ChanlunAnalyzer._analyze
MergeBars ==
    /\ pc = "merge_bars"
    /\ UNCHANGED caller_vars
    /\ bars_merged' = _merge_bars(bars_raw)
    /\ pc' = "calculate_macd"
    /\ UNCHANGED multi_vars
    /\ UNCHANGED <<bars_raw, macd_dif, macd_dea, macd_hist, fractals, strokes,
                   segments, pivots, trade_points>>

CalculateMacd ==
    /\ pc = "calculate_macd"
    /\ UNCHANGED caller_vars
    /\ LET m == _calculate_macd(bars_merged)
       IN  macd_dif' = m.dif /\ macd_dea' = m.dea /\ macd_hist' = m.hist
    /\ pc' = "identify_fractals"
    /\ UNCHANGED multi_vars
    /\ UNCHANGED <<bars_raw, bars_merged, fractals, strokes, segments, pivots,
                   trade_points>>

IdentifyFractals ==
    /\ pc = "identify_fractals"
    /\ UNCHANGED caller_vars
    /\ fractals' = _identify_fractals(bars_merged)
    /\ pc' = "identify_strokes"
    /\ UNCHANGED multi_vars
    /\ UNCHANGED <<bars_raw, bars_merged, macd_dif, macd_dea, macd_hist,
                   strokes, segments, pivots, trade_points>>

IdentifyStrokes ==
    /\ pc = "identify_strokes"
    /\ UNCHANGED caller_vars
    /\ strokes' = _identify_strokes(bars_merged, fractals)
    /\ pc' = "calculate_stroke_macd_area"
    /\ UNCHANGED multi_vars
    /\ UNCHANGED <<bars_raw, bars_merged, macd_dif, macd_dea, macd_hist,
                   fractals, segments, pivots, trade_points>>

CalculateStrokeMacdArea ==
    /\ pc = "calculate_stroke_macd_area"
    /\ UNCHANGED caller_vars
    /\ strokes' = _calculate_stroke_macd_area(macd_hist, strokes)
    /\ pc' = "identify_segments"
    /\ UNCHANGED multi_vars
    /\ UNCHANGED <<bars_raw, bars_merged, macd_dif, macd_dea, macd_hist,
                   fractals, segments, pivots, trade_points>>

IdentifySegments ==
    /\ pc = "identify_segments"
    /\ UNCHANGED caller_vars
    /\ segments' = _identify_segments(strokes)
    /\ pc' = "identify_pivots"
    /\ UNCHANGED multi_vars
    /\ UNCHANGED <<bars_raw, bars_merged, macd_dif, macd_dea, macd_hist,
                   fractals, strokes, pivots, trade_points>>

IdentifyPivots ==
    /\ pc = "identify_pivots"
    /\ UNCHANGED caller_vars
    /\ pivots' = _identify_pivots(strokes)
    /\ pc' = "identify_trend_type"
    /\ UNCHANGED multi_vars
    /\ UNCHANGED <<bars_raw, bars_merged, macd_dif, macd_dea, macd_hist,
                   fractals, strokes, segments, trade_points>>

IdentifyTrendType ==
    /\ pc = "identify_trend_type"
    /\ UNCHANGED caller_vars
    /\ pivots' = _identify_trend_type(pivots)
    /\ pc' = "identify_trade_points"
    /\ UNCHANGED multi_vars
    /\ UNCHANGED <<bars_raw, bars_merged, macd_dif, macd_dea, macd_hist,
                   fractals, strokes, segments, trade_points>>

IdentifyTradePoints ==
    /\ pc = "identify_trade_points"
    /\ UNCHANGED caller_vars
    /\ trade_points' = _identify_trade_points(strokes, pivots)
    /\ pc' = "analyzed"
    /\ UNCHANGED multi_vars
    /\ UNCHANGED <<bars_raw, bars_merged, macd_dif, macd_dea, macd_hist,
                   fractals, strokes, segments, pivots>>

\* the ChanlunAnalyzer just built, as self.analyzers keeps it
Analyzer ==
    [bars_raw |-> bars_raw, bars_merged |-> bars_merged, fractals |-> fractals,
     strokes |-> strokes, segments |-> segments, pivots |-> pivots,
     trade_points |-> trade_points]

\* self.analyzers[level] = ChanlunAnalyzer(...), then the head of the next
\* round of the level loop: build the bars of the next level and start its
\* analyzer, or leave the loop
NextLevel ==
    /\ pc = "analyzed"
    /\ UNCHANGED caller_vars
    /\ analyzers' = Append(analyzers, Analyzer)
    /\ LET higher_bars == _segments_to_bars(segments)
       IN  IF level + 1 <= levels /\ HasEnoughBars(higher_bars)
           THEN /\ level' = level + 1
                /\ pc' = "merge_bars"
                /\ bars_raw' = higher_bars
                /\ bars_merged' = <<>>
                /\ macd_dif' = <<>> /\ macd_dea' = <<>> /\ macd_hist' = <<>>
                /\ fractals' = <<>> /\ strokes' = <<>> /\ segments' = <<>>
                /\ pivots' = <<>> /\ trade_points' = <<>>
           ELSE /\ pc' = "find_nested_trade_points"
                /\ UNCHANGED <<level, analyzer_vars>>
    /\ UNCHANGED <<self_bars, levels, nested_trade_points>>

FindNestedTradePoints ==
    /\ pc = "find_nested_trade_points"
    /\ UNCHANGED caller_vars
    /\ nested_trade_points' = _find_nested_trade_points(analyzers, levels)
    /\ pc' = "done"
    /\ UNCHANGED <<analyzer_vars, self_bars, levels, level, analyzers>>

Next ==
    \/ MergeBars
    \/ CalculateMacd
    \/ IdentifyFractals
    \/ IdentifyStrokes
    \/ CalculateStrokeMacdArea
    \/ IdentifySegments
    \/ IdentifyPivots
    \/ IdentifyTrendType
    \/ IdentifyTradePoints
    \/ NextLevel
    \/ FindNestedTradePoints

SpecWide == InitWide /\ [][Next]_vars
SpecFlat == InitFlat /\ [][Next]_vars
SpecZig == InitZig /\ [][Next]_vars
SpecPad == InitPad /\ [][Next]_vars
SpecSkip == InitSkip /\ [][Next]_vars
SpecDay == InitDay /\ [][Next]_vars
SpecTrend == InitTrend /\ [][Next]_vars
SpecWave == InitWave /\ [][Next]_vars
SpecRise == InitRise /\ [][Next]_vars
SpecMerge == InitMerge /\ [][Next]_vars
SpecAny == InitAny /\ [][Next]_vars
SpecLevels == InitLevels /\ [][Next]_vars
SpecHours == InitHours /\ [][Next]_vars
SpecChain == InitChain /\ [][Next]_vars
SpecLabel == InitLabel /\ [][Next]_vars
SpecRun == InitRun /\ [][Next]_vars
SpecShort == InitShort /\ [][Next]_vars

\* The driver runs its stages one after the other without waiting for
\* anything: a stage that can run does run.  Every stage is a total function
\* of the state, so some stage can run exactly while pc is not at an end, and
\* every step of Next moves pc: RunStage is a step of the driver seen through
\* pc alone, and weak fairness of it is weak fairness of Next.
EndOfRun == {"done", "rejected"}

StageNames ==
    {"merge_bars", "calculate_macd", "identify_fractals", "identify_strokes",
     "calculate_stroke_macd_area", "identify_segments", "identify_pivots",
     "identify_trend_type", "identify_trade_points", "analyzed",
     "find_nested_trade_points", "done"}

RunStage == pc \notin EndOfRun /\ pc' \in StageNames \ {pc}

\* the runs of families 7 and 12 under that fairness
InitFair == InitLevels \/ InitTrend

SpecFair == InitFair /\ [][Next]_vars /\ WF_pc(RunStage)

\* ------------------------------------------------------------------ claims
\* C1: the merged bars have no two adjacent bars in an inclusion
\* relationship, and merging them again returns them unchanged.
C1_MergedBarsFreeOfInclusion ==
    pc # "merge_bars" =>
        /\ \A k \in 1..(Len(bars_merged) - 1) :
               ~_has_inclusion(bars_merged[k], bars_merged[k + 1])
        /\ _merge_bars(bars_merged) = bars_merged

\* C2: the centre bars of the start and the end fractal of every stroke are
\* at least 3 positions apart in the merged bars.
C2_StrokeSeparation ==
    \A k \in 1..Len(strokes) :
        Abs(strokes[k].bar_end_idx - strokes[k].bar_start_idx) >= 3

\* C3: every two consecutive strokes of the stroke sequence have opposite
\* directions.
C3_StrokesAlternate ==
    \A k \in 1..(Len(strokes) - 1) :
        strokes[k].direction # strokes[k + 1].direction

\* three strokes built from a fractal sequence holding a run of same-type
\* fractals
C3_Witness ==
    /\ Len(strokes) >= 3
    /\ \E k \in 1..(Len(fractals) - 1) :
           fractals[k].fractal_type = fractals[k + 1].fractal_type

\* C4: an Up stroke ends above its start price, a Down stroke below it.
C4_StrokeMonotonic ==
    \A k \in 1..Len(strokes) :
        IF strokes[k].direction = "up"
        THEN StrokeEndPrice(strokes[k]) > StrokeStartPrice(strokes[k])
        ELSE StrokeEndPrice(strokes[k]) < StrokeStartPrice(strokes[k])

\* strokes of both directions, one of them ending past the first fractal of
\* the other type
C4_Witness ==
    /\ \E k \in 1..Len(strokes) : strokes[k].direction = "up"
    /\ \E k \in 1..Len(strokes) : strokes[k].direction = "down"
    /\ \E k \in 1..Len(strokes) :
           strokes[k].end_fractal.index > strokes[k].start_fractal.index + 1

\* C5: every pivot has low strictly less than high.
C5_PivotBandNotEmpty ==
    \A p \in 1..Len(pivots) : pivots[p].low < pivots[p].high

\* C6: every pivot has at least 3 strokes, and the range of each of them
\* intersects the pivot's final band.
C6_PivotStrokesMeetBand ==
    \A p \in 1..Len(pivots) :
        /\ Len(pivots[p].strokes) >= 3
        /\ \A k \in 1..Len(pivots[p].strokes) :
               LET stroke == At(strokes, pivots[p].strokes[k])
               IN  /\ StrokeLow(stroke) <= pivots[p].high
                   /\ StrokeHigh(stroke) >= pivots[p].low

\* a pivot that absorbed a fourth stroke and whose band is narrower than
\* the range of some stroke of it, next to a stroke that was not absorbed
C6_Witness ==
    \E p \in 1..Len(pivots) :
        /\ Len(pivots[p].strokes) >= PivotWindow + 1
        /\ \E k \in 1..Len(pivots[p].strokes) :
               StrokeHigh(At(strokes, pivots[p].strokes[k])) > pivots[p].high
        /\ pivots[p].strokes[Len(pivots[p].strokes)] < Len(strokes) - 1

\* C7: every segment references at least 3 strokes.
C7_SegmentMinStrokes ==
    \A g \in 1..Len(segments) : Len(segments[g].strokes) >= 3

\* a segment cut at MaxSegmentStrokes strokes with strokes left over, a
\* segment closed by a fractal of its feature sequence (the next segment
\* starts on its last stroke) and a segment closed by the end of the strokes
C7_Witness ==
    /\ \E g \in 1..Len(segments) :
           /\ Len(segments[g].strokes) = MaxSegmentStrokes
           /\ segments[g].strokes[MaxSegmentStrokes] < Len(strokes) - 1
    /\ \E g \in 1..(Len(segments) - 1) :
           segments[g + 1].strokes[1]
               = segments[g].strokes[Len(segments[g].strokes)]
    /\ \E g \in 1..Len(segments) :
           segments[g].strokes[Len(segments[g].strokes)] = Len(strokes) - 1

\* is there a third-class point of this type at the end of the return stroke
HasThirdClassPoint(point_type, return_stroke) ==
    \E k \in 1..Len(trade_points) :
        /\ trade_points[k].point_type = point_type
        /\ trade_points[k].dt = StrokeEndDt(return_stroke)
        /\ trade_points[k].price = StrokeEndPrice(return_stroke)
        /\ trade_points[k].strength = ThirdClassStrength

InUnitInterval(x) == x.d > 0 /\ 0 <= x.n /\ x.n <= x.d

AllInUnitInterval(tps) ==
    \A k \in 1..Len(tps) :
        /\ InUnitInterval(tps[k].strength)
        /\ InUnitInterval(tps[k].macd_strength)

\* C9: every trade point of the analyzer at work, of every finished level
\* and every nested trade point has its strength and its momentum-divergence
\* strength in [0, 1].
C9_StrengthsInUnitInterval ==
    /\ AllInUnitInterval(trade_points)
    /\ \A l \in 1..Len(analyzers) : AllInUnitInterval(analyzers[l].trade_points)
    /\ AllInUnitInterval(nested_trade_points)

\* a first-class point with a momentum divergence next to one whose momentum
\* grew, a second-class point, and a nested point raised above the strength
\* of its base point
C9_Witness ==
    /\ pc = "done"
    /\ \E k \in 1..Len(analyzers[1].trade_points) :
           /\ analyzers[1].trade_points[k].point_type \in {"buy_1", "sell_1"}
           /\ analyzers[1].trade_points[k].macd_strength.n > 0
    /\ \E k \in 1..Len(analyzers[1].trade_points) :
           /\ analyzers[1].trade_points[k].point_type \in {"buy_1", "sell_1"}
           /\ analyzers[1].trade_points[k].macd_strength.n = 0
    /\ \E k \in 1..Len(analyzers[1].trade_points) :
           analyzers[1].trade_points[k].point_type \in {"buy_2", "sell_2"}
    /\ \E k \in 1..Len(nested_trade_points) :
           \E b \in 1..Len(analyzers[1].trade_points) :
               /\ analyzers[1].trade_points[b].dt = nested_trade_points[k].dt
               /\ FracLess(analyzers[1].trade_points[b].strength,
                           nested_trade_points[k].strength)

\* C10: the trade points are in non-decreasing timestamp order and the
\* index of each is its position in the list.
C10_TradePointsSortedAndIndexed ==
    \A k \in 1..Len(trade_points) :
        /\ trade_points[k].index = k - 1
        /\ k < Len(trade_points) => trade_points[k].dt <= trade_points[k + 1].dt

\* the detectors left a first-class and a second-class point out of time
\* order, and the list was put in order
C10_Witness ==
    /\ pc = "analyzed"
    /\ \E k \in 1..Len(trade_points) : trade_points[k].point_type \in {"buy_1", "sell_1"}
    /\ \E k \in 1..Len(trade_points) : trade_points[k].point_type \in {"buy_2", "sell_2"}
    /\ LET detected == DetectedTradePoints(strokes, pivots)
       IN  \E k \in 1..(Len(detected) - 1) : detected[k].dt > detected[k + 1].dt

\* C11: analysing an empty bar list never stops short of its end and leaves
\* the merged bars, the three momentum series, the fractals, strokes,
\* segments, pivots and trade points empty.
C11_EmptyInputStaysEmpty ==
    self_bars = <<>> =>
        /\ bars_merged = <<>>
        /\ macd_dif = <<>> /\ macd_dea = <<>> /\ macd_hist = <<>>
        /\ fractals = <<>> /\ strokes = <<>> /\ segments = <<>>
        /\ pivots = <<>> /\ trade_points = <<>>
        /\ pc # "done" => ENABLED Next

\* the analysis of an empty bar list, finished
C11_Witness ==
    /\ self_bars = <<>>
    /\ pc = "done"
    /\ Len(analyzers) = 1
    /\ analyzers[1].bars_raw = <<>>

\* do the highs and the lows both rise from each bar to the next
StrictlyRising(series) ==
    \A k \in 1..(Len(series) - 1) :
        series[k].high < series[k + 1].high /\ series[k].low < series[k + 1].low

\* C12: for bars whose highs and lows both rise from each bar to the next,
\* the merged bars are the bars themselves and there is no fractal, stroke,
\* segment, pivot or trade point.
C12_RisingSeriesHasNoStructure ==
    StrictlyRising(self_bars) =>
        /\ pc # "merge_bars" => bars_merged = self_bars
        /\ fractals = <<>> /\ strokes = <<>> /\ segments = <<>>
        /\ pivots = <<>> /\ trade_points = <<>>
        /\ nested_trade_points = <<>>

\* the 50-bar rising series, analysed to the end
C12_Witness ==
    /\ StrictlyRising(self_bars)
    /\ Len(self_bars) = 50
    /\ pc = "done"
    /\ bars_merged = self_bars
    /\ Len(macd_hist) = 50

\* the accumulated bars once the first i bars of the series have come in
Accumulated(series, i) == _merge_bars(SubSeq(series, 1, i))

\* the merge rule for the bar that comes in after the first i bars
MergeRuleAt(series, i) ==
    LET acc == Accumulated(series, i)
        next == Accumulated(series, i + 1)
        current == series[i + 1]
        last == acc[Len(acc)]
        polarity == IF Len(acc) >= 2 THEN BarDirection(acc[Len(acc) - 1])
                                     ELSE BarDirection(last)
    IN  IF _has_inclusion(last, current)
        THEN /\ Len(next) = Len(acc)
             /\ SubSeq(next, 1, Len(acc) - 1) = SubSeq(acc, 1, Len(acc) - 1)
             /\ next[Len(next)].high =
                    (IF polarity = "up" THEN Max(last.high, current.high)
                                        ELSE Min(last.high, current.high))
             /\ next[Len(next)].low =
                    (IF polarity = "up" THEN Max(last.low, current.low)
                                        ELSE Min(last.low, current.low))
             /\ next[Len(next)].vol = last.vol + current.vol
        ELSE next = Append(acc, current)

\* C13: each incoming bar in inclusion with the last accumulated bar
\* replaces it by a merge whose polarity is the direction of the
\* second-to-last accumulated bar (the last one's own when it is alone): Up
\* takes the max of the highs and of the lows, Down the min of both, the
\* volume is the sum; any other bar is appended unchanged; the merged bars
\* are what has accumulated after the last bar.  The three bars of the
\* inclusion example leave exactly 2 merged bars.
C13_MergeRule ==
    pc # "merge_bars" =>
        /\ \A i \in 1..(Len(bars_raw) - 1) : MergeRuleAt(bars_raw, i)
        /\ bars_merged = Accumulated(bars_raw, Len(bars_raw))
        /\ Len(bars_raw) >= 3 /\ SubSeq(bars_raw, 1, 3) = InclusionBars
               => Len(Accumulated(bars_raw, 3)) = 2
        /\ bars_raw = InclusionBars => Len(bars_merged) = 2

\* the three bars of the example followed by a bar that is appended and a
\* bar merged into it with the polarity of the bar before it, which is not
\* its own
C13_Witness ==
    /\ pc = "calculate_macd"
    /\ Len(bars_raw) = 5
    /\ SubSeq(bars_raw, 1, 3) = InclusionBars
    /\ Len(Accumulated(bars_raw, 3)) = 2
    /\ Len(Accumulated(bars_raw, 4)) = 3
    /\ Len(bars_merged) = 3
    /\ BarDirection(bars_merged[2]) # BarDirection(Accumulated(bars_raw, 4)[3])

\* the overlap of strokes a..b: the highest low and the lowest high
OverlapLow(st, a, b) == Greatest({StrokeLow(At(st, k)) : k \in a..b})
OverlapHigh(st, a, b) == Least({StrokeHigh(At(st, k)) : k \in a..b})

\* is the overlap of the three strokes from i on a band low < high
WindowOverlaps(st, i) == OverlapLow(st, i, i + 2) < OverlapHigh(st, i, i + 2)

\* does the range of the stroke meet the band [low, high]
MeetsBand(stroke, low, high) ==
    StrokeLow(stroke) <= high /\ StrokeHigh(stroke) >= low

\* the pivots ps are what the scan of the strokes st gives
PivotScan(st, ps) ==
    /\ \A p \in 1..Len(ps) :
           LET a == ps[p].strokes[1]
               b == ps[p].strokes[Len(ps[p].strokes)]
           IN  /\ Len(ps[p].strokes) >= 3
               /\ \A k \in 1..Len(ps[p].strokes) : ps[p].strokes[k] = a + k - 1
               /\ WindowOverlaps(st, a)
               /\ \A k \in (a + 3)..b :
                      MeetsBand(At(st, k), OverlapLow(st, a, k - 1),
                                OverlapHigh(st, a, k - 1))
               /\ ps[p].low = OverlapLow(st, a, b)
               /\ ps[p].high = OverlapHigh(st, a, b)
               /\ b + 1 < Len(st) => ~MeetsBand(At(st, b + 1), ps[p].low, ps[p].high)
               /\ p < Len(ps) => ps[p + 1].strokes[1] > b
    /\ \A i \in 0..(Len(st) - 3) :
           (\A p \in 1..Len(ps) :
                i < ps[p].strokes[1] \/ i > ps[p].strokes[Len(ps[p].strokes)])
               => ~WindowOverlaps(st, i)

\* a stroke with the range [low, high], stroke k of a chain one day apart
RangeStroke(k, low, high) ==
    LET bottom == [fractal_type |-> "bottom", dt |-> 0, high |-> low, low |-> low,
                   power |-> 0, bars |-> <<>>, index |-> 0]
        top == [fractal_type |-> "top", dt |-> 0, high |-> high, low |-> high,
                power |-> 0, bars |-> <<>>, index |-> 0]
        up == k % 2 = 0
    IN  [direction |-> IF up THEN "up" ELSE "down",
         start_fractal |-> [(IF up THEN bottom ELSE top) EXCEPT !.dt = k, !.index = k],
         end_fractal |-> [(IF up THEN top ELSE bottom) EXCEPT !.dt = k + 1,
                                                             !.index = k + 1],
         index |-> k, macd_area |-> 0, bar_start_idx |-> -1, bar_end_idx |-> -1]

ExampleStrokes ==
    <<RangeStroke(0, 10, 20), RangeStroke(1, 15, 25), RangeStroke(2, 12, 18),
      RangeStroke(3, 16, 19), RangeStroke(4, 25, 30)>>

\* C14: a pivot starts at the first window of 3 strokes, from where the scan
\* stands, whose overlap is a band low < high; it takes in each following
\* stroke whose range meets the band narrowed so far, its band is the
\* overlap of all its strokes, the stroke after it does not meet its band,
\* and the scan goes on directly after it.  The stroke ranges [10,20],
\* [15,25], [12,18], [16,19], [25,30] give one pivot of 4 strokes with band
\* [16,18] (evaluated where the scan is about to run).
C14_PivotScan ==
    /\ pc \in {"identify_trend_type", "identify_trade_points", "analyzed",
                "find_nested_trade_points", "done"}
           => PivotScan(strokes, pivots)
    /\ pc = "identify_pivots" =>
           LET ps == _identify_pivots(ExampleStrokes)
           IN  /\ Len(ps) = 1
               /\ ps[1].strokes = <<0, 1, 2, 3>>
               /\ ps[1].low = 16 /\ ps[1].high = 18
               /\ PivotScan(ExampleStrokes, ps)

\* a pivot that took in a fourth stroke which narrowed its band, stopped at
\* a stroke outside the band, and a second pivot found after it
C14_Witness ==
    /\ pc = "identify_trend_type"
    /\ Len(pivots) >= 2
    /\ \E p \in 1..(Len(pivots) - 1) :
           LET a == pivots[p].strokes[1]
               b == pivots[p].strokes[Len(pivots[p].strokes)]
           IN  /\ b >= a + 3
               /\ OverlapHigh(strokes, a, b) - OverlapLow(strokes, a, b)
                      < OverlapHigh(strokes, a, a + 2) - OverlapLow(strokes, a, a + 2)
               /\ ~MeetsBand(At(strokes, b + 1), pivots[p].low, pivots[p].high)

\* C15: building a bar fails exactly when its high is below its low, or
\* below the larger of open and close, or its low is above the smaller of
\* open and close; the bars of a caller are all built exactly when none of
\* them is such a bar.
C15_BarRejectedExactlyWhenIllFormed ==
    LET fails(b) ==
            \/ b.high < b.low
            \/ b.high < Max(b.open, b.close)
            \/ b.low > Min(b.open, b.close)
    IN  /\ pc = "rejected" <=> \E k \in 1..Len(bar_args) : fails(bar_args[k])
        /\ pc # "rejected" => self_bars = bar_args

\* a bar rejected for its open alone: high above low, close between them,
\* open above high
C15_Witness ==
    /\ pc = "rejected"
    /\ self_bars = <<>>
    /\ \E k \in 1..Len(bar_args) :
           /\ bar_args[k].high > bar_args[k].low
           /\ bar_args[k].open > bar_args[k].high
           /\ bar_args[k].close >= bar_args[k].low
           /\ bar_args[k].close <= bar_args[k].high

\* C16: the analysed levels are 1..k without a gap, k being at most the
\* requested number of levels clamped to 1..5; a level above the first is
\* analysed only if the segments of the level below it give at least 3 bars,
\* and after the analysis no level above k has been started.
C16_LevelsContiguousAndBounded ==
    LET clamped == IF requested_levels < 1 THEN 1
                   ELSE IF requested_levels > 5 THEN 5 ELSE requested_levels
        started == IF pc = "rejected" THEN 0 ELSE level
    IN  /\ pc # "rejected" => levels = clamped
        /\ started <= clamped
        /\ Len(analyzers) \in {started - 1, started}
        /\ \A N \in 1..(started - 1) :
               /\ N <= Len(analyzers)
               /\ Len(analyzers[N].segments) >= 3
        /\ \A N \in 2..Len(analyzers) :
               Len(analyzers[N].bars_raw) = Len(analyzers[N - 1].segments)
        /\ pc \in {"find_nested_trade_points", "done"} => Len(analyzers) = started

\* more than 5 levels asked for, the first level gives 3 bars or more, the
\* second fewer than 3: two levels are analysed and no third
C16_Witness ==
    /\ pc = "done"
    /\ requested_levels > 5
    /\ Len(analyzers) = 2
    /\ Len(analyzers[1].segments) >= 3
    /\ Len(analyzers[2].segments) < 3

\* the trade points of level lv of the type of tp that are no further than
\* lv * 5 days from it
WithinDays(tp, lv) ==
    {k \in 1..Len(analyzers[lv].trade_points) :
        /\ analyzers[lv].trade_points[k].point_type = tp.point_type
        /\ Abs(analyzers[lv].trade_points[k].dt - tp.dt) <= lv * 5 * HoursPerDay}

ConfirmingLevels(tp) == {lv \in 2..Len(analyzers) : WithinDays(tp, lv) # {}}

\* C17: the nested trade points are the trade points of level 1 that have,
\* at one analysed higher level or more, a point of their type within
\* level * 5 days, in the order of level 1; each keeps type, timestamp and
\* price, and its strength is the lesser of 0.98 and the strength at level 1
\* plus 0.1 for every such higher level.
C17_NestedPointsAreConfirmedBasePoints ==
    pc = "done" =>
        LET kept == SelectSeq(analyzers[1].trade_points,
                              LAMBDA tp : ConfirmingLevels(tp) # {})
            boosted(tp) ==
                FracMin(Frac(98, 100),
                        Frac(10 * tp.strength.n
                                 + Cardinality(ConfirmingLevels(tp)) * tp.strength.d,
                             10 * tp.strength.d))
        IN  /\ Len(nested_trade_points) = Len(kept)
            /\ \A k \in 1..Len(kept) :
                   /\ k <= Len(nested_trade_points)
                   /\ nested_trade_points[k].point_type = kept[k].point_type
                   /\ nested_trade_points[k].dt = kept[k].dt
                   /\ nested_trade_points[k].price = kept[k].price
                   /\ nested_trade_points[k].strength = boosted(kept[k])

\* C18: each stroke after the first starts at the fractal where the stroke
\* before it ends, also when more fractals of the type of that end follow it.
C18_StrokesChained ==
    \A k \in 1..(Len(strokes) - 1) :
        strokes[k + 1].start_fractal = strokes[k].end_fractal

\* C19: each segment after the first begins with the stroke that ends the
\* segment before it, however that segment was closed.
C19_SegmentsShareBoundaryStroke ==
    \A k \in 1..(Len(segments) - 1) :
        segments[k + 1].strokes[1]
            = segments[k].strokes[Len(segments[k].strokes)]

\* the inclusion-merged characteristic sequence of the m strokes from stroke
\* number i on: those running against the first of them
Characteristic(i, m) ==
    LET direction == At(strokes, i).direction
    IN  _merge_feature_sequence(
            FeatureElements(SubSeq(strokes, i + 1, i + m), direction, 0),
            direction)

\* the places of that sequence whose element is the middle of a Bottom
\* fractal (first stroke Up) or of a Top fractal (first stroke Down)
ClosingFractals(i, m) ==
    LET seq == Characteristic(i, m)
    IN  {p \in 2..(Len(seq) - 1) :
            IF At(strokes, i).direction = "up"
            THEN seq[p].low < seq[p - 1].low /\ seq[p].low < seq[p + 1].low
            ELSE seq[p].high > seq[p - 1].high /\ seq[p].high > seq[p + 1].high}

\* the numbers of strokes, of those a segment candidate from stroke i may
\* collect, at which its characteristic sequence has such a fractal
ClosedAfter(i) ==
    {m \in 3..Min(MaxSegmentStrokes, Len(strokes) - i) : ClosingFractals(i, m) # {}}

\* C20: a segment has the direction of its first stroke; if the
\* characteristic sequence of the strokes collected from its first stroke
\* comes to hold a Bottom fractal (Up) or a Top fractal (Down), the segment
\* is closed at the first number of strokes where it does and holds the
\* strokes up to the one recorded at the middle element of that fractal;
\* its high and low are the greatest high and the least low of its strokes.
C20_SegmentClosedByCharacteristicFractal ==
    \A k \in 1..Len(segments) :
        LET seg == segments[k]
            i == seg.strokes[1]
            own == {seg.strokes[n] : n \in 1..Len(seg.strokes)}
        IN  /\ seg.direction = At(strokes, i).direction
            /\ seg.strokes = [n \in 1..Len(seg.strokes) |-> i + n - 1]
            /\ seg.high = Greatest({StrokeHigh(At(strokes, n)) : n \in own})
            /\ seg.low = Least({StrokeLow(At(strokes, n)) : n \in own})
            /\ ClosedAfter(i) # {} =>
                   LET m == Least(ClosedAfter(i))
                       seq == Characteristic(i, m)
                       p == Least(ClosingFractals(i, m))
                   IN  Len(seg.strokes) = seq[p].idx + 1

\* a Down segment closed by a Top fractal whose middle element was merged
\* from two strokes, and an Up segment closed by a Bottom fractal, each
\* leaving out strokes collected after the middle element
C20_Witness ==
    /\ pc = "identify_pivots"
    /\ \E k \in 1..Len(segments) :
           LET i == segments[k].strokes[1] IN
           /\ segments[k].direction = "down"
           /\ ClosedAfter(i) # {}
           /\ Len(segments[k].strokes) < Least(ClosedAfter(i))
           /\ Len(Characteristic(i, Least(ClosedAfter(i))))
                  < Len(FeatureElements(SubSeq(strokes, i + 1,
                                               i + Least(ClosedAfter(i))),
                                        "down", 0))
    /\ \E k \in 1..Len(segments) :
           LET i == segments[k].strokes[1] IN
           /\ segments[k].direction = "up"
           /\ ClosedAfter(i) # {}
           /\ Len(segments[k].strokes) < Least(ClosedAfter(i))

\* do the ranges [low, high] of two pivots have a price in common
RangesOverlap(p, q) == p.low <= q.high /\ q.low <= p.high

\* the states in which the pivots carry their final labels
Labelled ==
    pc \in {"identify_trade_points", "analyzed", "find_nested_trade_points", "done"}

\* C21: in the final labelling, the later pivot of two adjacent pivots whose
\* ranges do not overlap is TrendUp when its centre is the higher one and
\* TrendDown when it is the lower one, whatever pivots follow it.
C21_LaterPivotLabelledByCentre ==
    Labelled =>
        \A k \in 2..Len(pivots) :
            ~RangesOverlap(pivots[k], pivots[k - 1]) =>
                /\ pivots[k].high + pivots[k].low > pivots[k - 1].high + pivots[k - 1].low
                       => pivots[k].trend_type = "trend_up"
                /\ pivots[k].high + pivots[k].low < pivots[k - 1].high + pivots[k - 1].low
                       => pivots[k].trend_type = "trend_down"

\* C22: in the final labelling a lone pivot is Consolidation, both pivots of
\* every adjacent pair whose ranges overlap are Consolidation, and of two
\* pivots or more none is Unknown.
C22_OverlappingPivotsConsolidate ==
    Labelled =>
        /\ Len(pivots) = 1 => pivots[1].trend_type = "consolidation"
        /\ \A k \in 2..Len(pivots) :
               RangesOverlap(pivots[k], pivots[k - 1]) =>
                   /\ pivots[k].trend_type = "consolidation"
                   /\ pivots[k - 1].trend_type = "consolidation"
        /\ Len(pivots) >= 2 =>
               \A k \in 1..Len(pivots) : pivots[k].trend_type # "unknown"

\* a lone pivot, labelled
C22_LonePivot == Labelled /\ Len(pivots) = 1

\* three pivots: the first two apart, the last two overlapping, all labelled
C22_Witness ==
    /\ pc = "analyzed"
    /\ Len(pivots) = 3
    /\ ~RangesOverlap(pivots[2], pivots[1])
    /\ RangesOverlap(pivots[3], pivots[2])
    /\ pivots[1].trend_type \in {"trend_up", "trend_down"}
    /\ pivots[3].trend_type = "consolidation"

\* the states in which the trade points of the level are complete
Detected == pc \in {"analyzed", "find_nested_trade_points", "done"}

\* the nearest stroke before stroke i, an even number of strokes back, that
\* has its direction; -1 when there is none
PriorSameDirection(i) ==
    LET back == {j \in 0..(i - 2) : /\ (i - j) % 2 = 0
                                     /\ At(strokes, j).direction = At(strokes, i).direction}
    IN  IF back = {} THEN -1 ELSE Greatest(back)

\* current / prior below 0.8, the prior floored at 0.001; both in units of
\* 1 / PerUnit
RatioBelowLimit(current, prior) == 10 * current < 8 * Max(prior, FloorUnits)

\* is a point of this type recorded at the end of stroke i
PointAtEndOf(i, point_type) ==
    \E k \in 1..Len(trade_points) :
        /\ trade_points[k].point_type = point_type
        /\ trade_points[k].dt = StrokeEndDt(At(strokes, i))
        /\ trade_points[k].price = StrokeEndPrice(At(strokes, i))

\* C23: a first-class point is recorded at the end of stroke i exactly when
\* i is the 5th stroke or a later one, an earlier stroke of its direction is
\* found stepping back 2 at a time, the ratio of the powers or the ratio of
\* the momentum areas (current / prior, the prior floored at 0.001) is below
\* 0.8, and the stroke ends at a new or equal extreme: Buy1 for a Down stroke
\* ending at or below the end of the prior one, Sell1 for an Up stroke ending
\* at or above it; an Up stroke gives no Buy1 and a Down stroke no Sell1.
C23_FirstClassExactly ==
    Detected =>
        \A i \in 0..(Len(strokes) - 1) :
            LET current == At(strokes, i)
                j == PriorSameDirection(i)
                diverges ==
                    /\ i >= 4
                    /\ j # -1
                    /\ \/ RatioBelowLimit(StrokePower(current) * PerUnit,
                                          StrokePower(At(strokes, j)) * PerUnit)
                       \/ RatioBelowLimit(current.macd_area, At(strokes, j).macd_area)
            IN  /\ PointAtEndOf(i, "buy_1") <=>
                       /\ diverges
                       /\ current.direction = "down"
                       /\ StrokeEndPrice(current) <= StrokeEndPrice(At(strokes, j))
                /\ PointAtEndOf(i, "sell_1") <=>
                       /\ diverges
                       /\ current.direction = "up"
                       /\ StrokeEndPrice(current) >= StrokeEndPrice(At(strokes, j))

\* the points of this type recorded at the end of stroke m
PointsAtEndOf(m, point_type) ==
    {k \in 1..Len(trade_points) :
        /\ trade_points[k].point_type = point_type
        /\ trade_points[k].dt = StrokeEndDt(At(strokes, m))
        /\ trade_points[k].price = StrokeEndPrice(At(strokes, m))}

\* the second-class point of a first-class point at the end of stroke i:
\* due exactly when the stroke two later runs `direction' and ends on the
\* near side of the first-class price, and then of strength 0.75
SecondFollowsFirst(i, first, second, direction) ==
    (PointAtEndOf(i, first) /\ i + 2 < Len(strokes)) =>
        LET later == At(strokes, i + 2)
            due == /\ later.direction = direction
                   /\ IF direction = "down"
                      THEN StrokeEndPrice(later) > StrokeEndPrice(At(strokes, i))
                      ELSE StrokeEndPrice(later) < StrokeEndPrice(At(strokes, i))
        IN  /\ due <=> PointsAtEndOf(i + 2, second) # {}
            /\ \A k \in PointsAtEndOf(i + 2, second) :
                   trade_points[k].strength = Frac(75, 100)

\* a second-class point has its first-class point two strokes before it
SecondHasFirst(first, second) ==
    \A k \in 1..Len(trade_points) :
        trade_points[k].point_type = second =>
            \E i \in 0..(Len(strokes) - 3) :
                /\ PointAtEndOf(i, first)
                /\ k \in PointsAtEndOf(i + 2, second)

\* C24: for every Buy1 (Sell1) whose stroke has a stroke two positions
\* later, a Buy2 (Sell2) of strength 0.75 is recorded at the end of that
\* later stroke exactly when it is a Down (Up) stroke ending strictly above
\* the Buy1 price (strictly below the Sell1 price); every second-class point
\* has such a first-class point.
C24_SecondClassFollowsFirst ==
    Detected =>
        /\ \A i \in 0..(Len(strokes) - 1) :
               /\ SecondFollowsFirst(i, "buy_1", "buy_2", "down")
               /\ SecondFollowsFirst(i, "sell_1", "sell_2", "up")
        /\ SecondHasFirst("buy_1", "buy_2")
        /\ SecondHasFirst("sell_1", "sell_2")

\* C25: the end fractal of every stroke is the most extreme of the window
\* that starts at its candidate end (the first fractal after the start that
\* has the other type and a valid price) and runs over the same-type
\* fractals immediately following it, at most 10 further fractals, up to the
\* first fractal of the other type: no fractal of the window has a higher
\* high (Up stroke) or a lower low (Down stroke) than the end.
FractalIndex(f) == CHOOSE k \in 0..(Len(fractals) - 1) : At(fractals, k) = f

CandidateEnd(a) ==
    Least({k \in (a + 1)..(Len(fractals) - 1) :
             /\ IsEndCandidate(At(fractals, a), At(fractals, k))
             /\ _has_enough_bars_between(bars_merged, At(fractals, a), At(fractals, k))
             /\ ValidPrice(At(fractals, a), At(fractals, k))})

LookAheadWindow(c) ==
    {m \in c..Min(c + LookAheadSpan, Len(fractals) - 1) :
        \A k \in c..m : At(fractals, k).fractal_type = At(fractals, c).fractal_type}

C25_EndIsMostExtremeOfRun ==
    \A n \in 1..Len(strokes) :
        LET stroke == strokes[n]
            e == FractalIndex(stroke.end_fractal)
            window == LookAheadWindow(CandidateEnd(FractalIndex(stroke.start_fractal)))
        IN  /\ e \in window
            /\ \A m \in window :
                   ~MoreExtremeEnd(stroke.direction, At(fractals, m), stroke.end_fractal)

\* the statement of C25 for runs of at most 9 fractals after the candidate
C25_ShortRuns ==
    \A n \in 1..Len(strokes) :
        LET stroke == strokes[n]
            e == FractalIndex(stroke.end_fractal)
            window == LookAheadWindow(CandidateEnd(FractalIndex(stroke.start_fractal)))
        IN  Cardinality(window) < LookAheadSpan + 1 =>
                /\ e \in window
                /\ \A m \in window :
                       ~MoreExtremeEnd(stroke.direction, At(fractals, m), stroke.end_fractal)

\* C26: every fractal is a strict three-bar extremum of the merged bars (a
\* top's centre high above both neighbours' highs, a bottom's centre low
\* below both neighbours' lows), a centre that ties a neighbour carries no
\* fractal of that type, and the fractals stand in the order of the merged
\* bars, each carrying the timestamp of its centre bar, their centres at
\* least two positions apart.
Position(bar_index) ==
    CHOOSE k \in 0..(Len(bars_merged) - 1) : At(bars_merged, k).index = bar_index

Centre(f) == Position(f.bars[2])

TiesHigh(k) ==
    \/ At(bars_merged, k).high = At(bars_merged, k - 1).high
    \/ At(bars_merged, k).high = At(bars_merged, k + 1).high

TiesLow(k) ==
    \/ At(bars_merged, k).low = At(bars_merged, k - 1).low
    \/ At(bars_merged, k).low = At(bars_merged, k + 1).low

FractalsFound == fractals # <<>> \/ pc \notin {"merge_bars", "calculate_macd", "identify_fractals"}

C26_FractalsStrictAndSpaced ==
    FractalsFound =>
        /\ \A n \in 1..Len(fractals) :
              LET f == fractals[n]
                  c == Centre(f)
              IN  /\ c \in 1..(Len(bars_merged) - 2)
                  /\ Position(f.bars[1]) = c - 1 /\ Position(f.bars[3]) = c + 1
                  /\ f.dt = At(bars_merged, c).dt
                  /\ f.high = At(bars_merged, c).high /\ f.low = At(bars_merged, c).low
                  /\ f.fractal_type = "top" =>
                         /\ f.high > At(bars_merged, c - 1).high
                         /\ f.high > At(bars_merged, c + 1).high
                  /\ f.fractal_type = "bottom" =>
                         /\ f.low < At(bars_merged, c - 1).low
                         /\ f.low < At(bars_merged, c + 1).low
        /\ \A k \in 1..(Len(bars_merged) - 2) : \A n \in 1..Len(fractals) :
              Centre(fractals[n]) = k =>
                  /\ TiesHigh(k) => fractals[n].fractal_type # "top"
                  /\ TiesLow(k) => fractals[n].fractal_type # "bottom"
        /\ \A n \in 1..(Len(fractals) - 1) :
              Centre(fractals[n + 1]) >= Centre(fractals[n]) + 2

\* two fractals whose centres are two positions apart, and a centre whose
\* high ties one neighbour's and is not below the other's
C26_Witness ==
    /\ FractalsFound
    /\ \E n \in 1..(Len(fractals) - 1) :
          Centre(fractals[n + 1]) = Centre(fractals[n]) + 2
    /\ \E k \in 1..(Len(bars_merged) - 2) :
          /\ TiesHigh(k)
          /\ At(bars_merged, k).high >= At(bars_merged, k - 1).high
          /\ At(bars_merged, k).high >= At(bars_merged, k + 1).high

\* C27: a stage whose input is below its minimum window leaves its output
\* empty: fewer than 3 merged bars give no fractals, fewer than 2 fractals
\* no strokes, fewer than 3 strokes no segments and no pivots, fewer than 5
\* strokes no first-class and no second-class trade point.
FirstOrSecondClass ==
    {n \in 1..Len(trade_points) :
        trade_points[n].point_type \in {"buy_1", "sell_1", "buy_2", "sell_2"}}

C27_ShortInputsGiveEmptyOutputs ==
    /\ Len(bars_merged) < 3 => fractals = <<>>
    /\ Len(fractals) < 2 => strokes = <<>>
    /\ Len(strokes) < 3 => segments = <<>> /\ pivots = <<>>
    /\ Len(strokes) < 5 => FirstOrSecondClass = {}
    /\ pc # "rejected"

\* the whole pass has run over three or four strokes that give a pivot
C27_Witness ==
    /\ pc = "done"
    /\ Len(strokes) \in {3, 4}
    /\ pivots # <<>>
    /\ FirstOrSecondClass = {}

\* the other windows: one or two merged bars, a single fractal, one or two
\* strokes, and five strokes with a first-class point
C27_TwoBars == pc = "done" /\ Len(bars_merged) \in {1, 2}
C27_OneFractal == pc = "done" /\ Len(fractals) = 1
C27_TwoStrokes == pc = "done" /\ Len(strokes) \in {1, 2}
C27_FiveStrokes == pc = "done" /\ Len(strokes) = 5 /\ FirstOrSecondClass # {}

\* C28: with fewer than 26 merged bars the divergence line, the signal line
\* and the histogram are empty, every stroke keeps momentum area 0 and every
\* trade point has momentum-divergence strength 0; with 26 merged bars or
\* more each of the three series has one value per merged bar.
MacdCalculated == pc \notin {"merge_bars", "calculate_macd", "rejected"}

C28_MacdNeedsSlowPeriod ==
    MacdCalculated =>
        IF Len(bars_merged) < 26
        THEN /\ macd_dif = <<>> /\ macd_dea = <<>> /\ macd_hist = <<>>
             /\ \A n \in 1..Len(strokes) : strokes[n].macd_area = 0
             /\ \A n \in 1..Len(trade_points) :
                   trade_points[n].macd_strength = FracZero
        ELSE /\ Len(macd_dif) = Len(bars_merged)
             /\ Len(macd_dea) = Len(bars_merged)
             /\ Len(macd_hist) = Len(bars_merged)

\* a pass over 25 merged bars that ends with strokes and a first-class point
C28_Witness ==
    /\ pc = "done"
    /\ level = 1
    /\ Len(bars_merged) = 25
    /\ strokes # <<>>
    /\ \E n \in 1..Len(trade_points) :
          trade_points[n].point_type \in {"buy_1", "sell_1"}

\* a pass over 26 merged bars or more
C28_LongSeries == pc = "done" /\ Len(bars_merged) >= 26 /\ strokes # <<>>

\* C29: the bars of a higher level are the segments of the level below, one
\* bar per segment in the segments' order: timestamp = the segment's end,
\* volume 0, high and low the segment's, open = low and close = high for an
\* Up segment, open = high and close = low for a Down segment; and the bar
\* of every segment the segment builder emits satisfies the Bar invariants.
IsBarOfSegment(bar, seg) ==
    /\ bar.dt = seg.end_dt
    /\ bar.vol = 0
    /\ bar.high = seg.high /\ bar.low = seg.low
    /\ seg.direction = "up" => bar.open = seg.low /\ bar.close = seg.high
    /\ seg.direction = "down" => bar.open = seg.high /\ bar.close = seg.low
    /\ seg.direction \in {"up", "down"}

C29_SegmentBarsAreValidBars ==
    /\ level >= 2 /\ pc # "rejected" =>
          LET lower == analyzers[level - 1].segments
          IN  /\ Len(bars_raw) = Len(lower)
              /\ \A k \in 1..Len(lower) :
                    /\ IsBarOfSegment(bars_raw[k], lower[k])
                    /\ BarValid(bars_raw[k])
    /\ \A k \in 1..Len(segments) :
          \E bar \in {_segments_to_bars(segments)[k]} :
              IsBarOfSegment(bar, segments[k]) /\ BarValid(bar)

\* a second level whose bars come from an Up and from a Down segment
C29_Witness ==
    /\ level = 2
    /\ pc = "merge_bars"
    /\ \E k \in 1..Len(bars_raw) : bars_raw[k].open < bars_raw[k].close
    /\ \E k \in 1..Len(bars_raw) : bars_raw[k].open > bars_raw[k].close

\* C30: the pass over every level and the driver come to their end: every
\* round of the scan loops of the fractal detector, the stroke builder, the
\* segment builder and the pivot detector moves its position forward and the
\* loop has ended after as many rounds as it has items, the level loop makes
\* at most 5 rounds, and the run reaches its end.
\* n rounds of the loop from `state': the state reached, and whether every
\* round made before the loop's end moved the position forward
RECURSIVE Rounds(_, _, _, _)
Rounds(Step(_), Ended(_), state, n) ==
    IF n <= 0 THEN [forward |-> TRUE, state |-> state]
    ELSE IF n = 1
    THEN LET next == Step(state)
         IN  [forward |-> Ended(state) \/ next.i > state.i, state |-> next]
    ELSE LET half == Rounds(Step, Ended, state, n \div 2)
         IN  IF half.forward
             THEN Rounds(Step, Ended, half.state, n - n \div 2)
             ELSE half

\* the loop from `state' moves forward in each round and ends within n rounds
Advances(Step(_), Ended(_), state, n) ==
    LET last == Rounds(Step, Ended, state, n)
    IN  last.forward /\ Ended(last.state)

FractalScanAdvances ==
    pc = "identify_fractals" /\ Len(bars_merged) >= 3 =>
        Advances(LAMBDA s : FractalLoop(bars_merged, s),
                 LAMBDA s : ~(s.i <= Len(bars_merged) - 3),
                 [i |-> 0, fractals |-> <<>>], Len(bars_merged))

StrokeScanAdvances ==
    pc = "identify_strokes" /\ Len(fractals) >= 2 =>
        LET current_start_idx == _find_first_valid_start(bars_merged, fractals)
        IN  Advances(LAMBDA s : StrokeLoop(bars_merged, fractals, s),
                     LAMBDA s : s.i >= Len(fractals),
                     [i |-> current_start_idx + 1,
                      current_start |-> At(fractals, current_start_idx),
                      strokes |-> <<>>], Len(fractals))

SegmentScanAdvances ==
    pc = "identify_segments" /\ Len(strokes) >= 3 =>
        Advances(LAMBDA s : SegmentsLoop(strokes, s),
                 LAMBDA s : s.i >= Len(strokes),
                 [i |-> 0, segments |-> <<>>], Len(strokes))

PivotScanAdvances ==
    pc = "identify_pivots" /\ Len(strokes) >= 3 =>
        Advances(LAMBDA s : PivotLoop(strokes, s),
                 LAMBDA s : ~(s.i <= Len(strokes) - 3),
                 [i |-> 0, pivots |-> <<>>], Len(strokes))

LevelLoopBounded == level \in 1..5 /\ Len(analyzers) <= 5

Finished == pc = "done"

C30_AnalysisTerminates ==
    /\ [](/\ FractalScanAdvances /\ StrokeScanAdvances
          /\ SegmentScanAdvances /\ PivotScanAdvances
          /\ LevelLoopBounded)
    /\ <>Finished

\* a run that has analysed two levels, the lowest with a pivot, and ended
C30_Witness ==
    /\ Finished
    /\ Len(analyzers) >= 2
    /\ analyzers[1].pivots # <<>>
    /\ analyzers[1].segments # <<>>

====
